---------------------------- MODULE Spec2Model ----------------------------
(***************************************************************************)
(* A model of the CompiLinda compiler: the lexer (src/src/main.ts), the    *)
(* recursive-descent parser (src/unnamed/part_000), the lowering of its    *)
(* tree and the semantic analyzer (src/src/combinedAnalyzer.ts), the code  *)
(* generator (src/unnamed/part_003 and src/src/codeGeneration.ts) and the  *)
(* driver (src/index.html).                                                *)
(*                                                                         *)
(* Every component has its own specification (LexSpec, ParseSpec, ...).   *)
(* The variables of the components a specification does not run keep      *)
(* their idle value.                                                       *)
(***************************************************************************)
EXTENDS Integers, Sequences, FiniteSets, TLC

VARIABLES
    input,      \* Lexer.input: the characters of the text being scanned
    lexer,      \* the Lexer object's fields and the tokens array of tokenize()
    lexPc,      \* where tokenize() is: "idle", "scan" (the while loop), "done"
    ptokens,    \* Parser.tokens: the token list the parser was constructed with
    parser,     \* the Parser object's fields, its call stack and its result
    parsePc,    \* where parse() is: "idle", "start", "run", "done"
    sem,        \* the SemanticAnalyzer object's fields and analyze()'s result
    semPc,      \* where analyze() is: "idle", "walk", "noAst", "done"
    semHist,    \* what the analyzer's walk has done so far
    gen,        \* the CodeGenerator object's fields and the image it returns
    genPc,      \* where generateMultiple() is: "idle", "start", "visit", "done"
    genStmts,   \* the number of statements of the block visited so far
    cg,         \* the fields of the CodeGenerator of codeGeneration.ts
    cgPc,       \* where its generate() is: "idle", "start", "visit", "done"
    cgRun,      \* the tree it is run on and what its runs have done
    drv,        \* the driver: the source, its sub-programs, what has run
    drvPc       \* where the driver is: "idle", "split", "lexer", "parser",
                \* "analyzed", "end" (of an iteration), "done"

lexVars == <<input, lexer, lexPc>>

parseVars == <<ptokens, parser, parsePc>>

semVars == <<sem, semPc, semHist>>

cgVars == <<cg, cgPc, cgRun>>

genVars == <<gen, genPc, genStmts, cgVars>>

drvVars == <<drv, drvPc>>

exceptLex == <<parseVars, semVars, genVars, drvVars>>

exceptParse == <<lexVars, semVars, genVars, drvVars>>

exceptSem == <<lexVars, parseVars, genVars, drvVars>>

exceptGen == <<lexVars, parseVars, semVars, drvVars, cgVars>>

exceptCg == <<lexVars, parseVars, semVars, drvVars, gen, genPc, genStmts>>

\* ------------------------------------------------------------------------
\* Bounds
\* ------------------------------------------------------------------------

\* The longest input of LexSpec, counted in chunks of LexChunks.
MaxChunks == 4

\* The number of ERROR entries after which the model stops counting.  An
\* input of n characters logs fewer than 2n + 3 errors when the scanner
\* advances; only a scanner that does not advance reaches this cap.
MaxLexErrors == 12

\* The longest token list of ParseSpec, counted in chunks of ParseChunks.
MaxParseChunks == 4

\* The number of parser errors after which the model stops counting.  A
\* parser that consumes a token per error logs fewer errors than this on
\* the token lists of ParseSpec; only a parser that does not advance
\* reaches this cap.
MaxParseErrors == 8

\* The analyzer's walk enters at most MaxBlocks blocks and analyzes at most
\* MaxStmts statements.
MaxBlocks == 3

MaxStmts == 3

\* The generator visits at most MaxGenStmts statements.
MaxGenStmts == 4

\* The length of the longest string literal: with the terminator it ends
\* just before HI_STRING.
LongLen == 17

\* The source of the driver is put together from at most MaxDrvChunks pieces.
MaxDrvChunks == 3

\* The number of nodes of the tree of CgSpec, the two ends of a block
\* counted as nodes, and the number of times generate() is run on it.
MaxCgNodes == 6

MaxCgRuns == 2

\* ------------------------------------------------------------------------
\* Sequences
\* ------------------------------------------------------------------------

RECURSIVE Flatten(_)
Flatten(ss) == IF ss = <<>> THEN <<>> ELSE Head(ss) \o Flatten(Tail(ss))

SeqsUpTo(S, n) == UNION {[1..k -> S] : k \in 0..n}

Last(s) == s[Len(s)]

\* ------------------------------------------------------------------------
\* The lexer: class Lexer of src/src/main.ts (lines 65-747)
\*
\* A character is a string of length one; the input is a sequence of them.
\* position is 0-based as in the source, so input[position + 1] is the
\* current character.  line and column only label diagnostics and never
\* decide a branch: the model leaves them out.  The DEBUG entry logToken
\* writes for each scanned token repeats the token list and is left out of
\* logs too; logs keeps the INFO, WARNING and ERROR entries in order.
\* ------------------------------------------------------------------------

Letters == {"a","b","c","d","e","f","g","h","i","j","k","l","m",
            "n","o","p","q","r","s","t","u","v","w","x","y","z"}

Digits == {"0","1","2","3","4","5","6","7","8","9"}

Keywords == { <<"i","n","t">>, <<"s","t","r","i","n","g">>,
              <<"b","o","o","l","e","a","n">>, <<"p","r","i","n","t">>,
              <<"w","h","i","l","e">>, <<"i","f">>, <<"e","l","s","e">>,
              <<"t","r","u","e">>, <<"f","a","l","s","e">> }

isLetter(c) == c \in Letters

isDigit(c) == c \in Digits

isIdentifierChar(c) == isLetter(c) \/ isDigit(c) \/ c = "_"

isKeyword(word) == word \in Keywords

currentChar(s) ==
    IF s.position < Len(input) THEN input[s.position + 1] ELSE ""

peek(s) ==
    IF s.position + 1 < Len(input) THEN input[s.position + 2] ELSE ""

advance(s) == [s EXCEPT !.position = @ + 1]

addLog(s, level, message) ==
    [s EXCEPT !.logs = Append(@, [level |-> level, message |-> message])]

addWarning(s, message) ==
    addLog([s EXCEPT !.warnings = @ + 1], "WARNING", message)

\* handleError: errors++ and one ERROR entry; it does not advance (the
\* advance in its body is commented out, main.ts line 745).
handleError(s, message) ==
    IF s.errors >= MaxLexErrors THEN s
    ELSE addLog([s EXCEPT !.errors = @ + 1], "ERROR", message)

pushToken(s, type, value) ==
    [s EXCEPT !.tokens = Append(@, [type |-> type, value |-> value])]

\* The while loop of handleString (lines 139-166).  ret is TRUE when the
\* loop returned from handleString (a newline inside the string).
RECURSIVE stringLoop(_)
stringLoop(s) ==
    IF s.position >= Len(input) \/ currentChar(s) = "\""
    THEN [s |-> s, ret |-> FALSE]
    ELSE IF currentChar(s) = "\n"
    THEN [s |-> handleError(s, "Multiline strings are not allowed"),
          ret |-> TRUE]
    ELSE stringLoop(advance(
            IF isLetter(currentChar(s))
            THEN pushToken(s, "CHAR", currentChar(s))
            ELSE handleError(s, "Invalid character in string")))

handleString(s) ==
    LET r == stringLoop(advance(pushToken(s, "QUOTE", "\"")))
    IN  IF r.ret THEN r.s
        ELSE IF currentChar(r.s) = "\""
        THEN advance(pushToken(r.s, "QUOTE", "\""))
        ELSE handleError(r.s, "Unterminated string")

\* The while loop of skipComment (lines 190-209).
RECURSIVE commentLoop(_)
commentLoop(s) ==
    IF s.position >= Len(input) THEN [s |-> s, foundEnd |-> FALSE]
    ELSE IF currentChar(s) = "/" /\ peek(s) = "*"
    THEN commentLoop([advance(advance(s)) EXCEPT !.commentDepth = @ + 1])
    ELSE IF currentChar(s) = "*" /\ peek(s) = "/"
    THEN LET t == [advance(advance(s)) EXCEPT !.commentDepth = @ - 1]
         IN  IF t.commentDepth = 0 THEN [s |-> t, foundEnd |-> TRUE]
             ELSE commentLoop(t)
    ELSE commentLoop(advance(s))

RECURSIVE skipToLineEnd(_)
skipToLineEnd(s) ==
    IF s.position < Len(input) /\ currentChar(s) # "\n"
    THEN skipToLineEnd(advance(s)) ELSE s

\* skipComment (lines 184-218).
skipComment(s) ==
    LET r == commentLoop([s EXCEPT !.commentDepth = @ + 1])
    IN  IF r.foundEnd THEN r.s
        ELSE skipToLineEnd(handleError(r.s, "Unterminated comment block"))

RECURSIVE skipSpaces(_)
skipSpaces(s) == IF currentChar(s) = " " THEN skipSpaces(advance(s)) ELSE s

\* readBuffer (lines 262-297): the run of identifier characters at the
\* position; the first prefix of it that is a keyword, else its first
\* character.
RECURSIVE identRun(_, _)
identRun(s, p) ==
    IF p < Len(input) /\ isIdentifierChar(input[p + 1])
    THEN <<input[p + 1]>> \o identRun(s, p + 1) ELSE <<>>

readBuffer(s) ==
    LET chars == identRun(s, s.position)
        hits  == {i \in 1..Len(chars) : isKeyword(SubSeq(chars, 1, i))}
    IN  IF hits # {}
        THEN LET i == CHOOSE i \in hits : \A j \in hits : i <= j
             IN  [s |-> [s EXCEPT !.position = @ + i],
                  word |-> SubSeq(chars, 1, i)]
        ELSE IF Len(chars) > 0
        THEN [s |-> [s EXCEPT !.position = @ + 1], word |-> <<chars[1]>>]
        ELSE [s |-> s, word |-> <<>>]

\* processKeyword and processIdentifier (lines 252-259, 414-436): the type
\* of the token for a word readBuffer returned.
tokenTypeOf(word) ==
    CASE word = <<"i","n","t">> -> "I_TYPE"
      [] word = <<"s","t","r","i","n","g">> -> "S_TYPE"
      [] word = <<"b","o","o","l","e","a","n">> -> "B_TYPE"
      [] word = <<"w","h","i","l","e">> -> "WHILE"
      [] word = <<"i","f">> -> "IF"
      [] word = <<"e","l","s","e">> -> "ELSE"
      [] word = <<"p","r","i","n","t">> -> "PRINT"
      [] word \in {<<"t","r","u","e">>, <<"f","a","l","s","e">>}
            -> "BOOLEAN_VALUE"
      [] OTHER -> "IDENTIFIER"

\* The print mini-mode of tokenize (lines 645-691), entered after a PRINT
\* token has been pushed.
printMode(s0) ==
    LET s1 == skipSpaces(s0)
    IN  IF currentChar(s1) = "("
        THEN LET s2 == skipSpaces(advance(pushToken(s1, "LEFT_PAREN", "(")))
                 s3 == IF currentChar(s2) = "\""
                       THEN handleString(s2)
                       ELSE advance(handleError(s2,
                                "Expected string after print("))
             IN  IF currentChar(s3) = ")"
                 THEN advance(pushToken(s3, "RIGHT_PAREN", ")"))
                 ELSE handleError(s3, "Expected closing parenthesis")
        ELSE handleError(s1, "Expected opening parenthesis after print")

\* The default case of the switch for a letter (lines 640-692).
scanWord(s) ==
    LET r == readBuffer(s)
        type == tokenTypeOf(r.word)
        s1 == pushToken(
                [r.s EXCEPT !.inPrintStatement = @ \/ type = "PRINT"],
                type, r.word)
    IN  IF r.word = <<>> THEN r.s
        ELSE IF type = "PRINT" THEN printMode(s1) ELSE s1

\* case '$' (lines 564-590).
scanEop(s) ==
    LET s1 == advance(pushToken(s, "EOP", "$"))
        s2 == IF s1.errors > 0
              THEN addLog(s1, "ERROR", "Lex failed")
              ELSE addLog(s1, "INFO", "Lex completed with 0 errors")
        s3 == [s2 EXCEPT !.programCounter = @ + 1]
    IN  IF s3.position < Len(input)
        THEN [addLog(s3, "INFO", "Lexing program") EXCEPT !.errors = 0]
        ELSE s3

\* One iteration of the while loop of tokenize (lines 456-713): the switch
\* on the current character.  No branch throws, so the catch clause of
\* lines 710-712 is never entered.
scanOne(s) ==
    LET c == currentChar(s)
    IN  CASE c = "{" -> advance(pushToken(s, "OPEN_BLOCK", c))
          [] c = "}" -> advance(pushToken(s, "CLOSE_BLOCK", c))
          [] c = "(" -> advance(pushToken(s, "LEFT_PAREN", c))
          [] c = ")" -> advance(pushToken(s, "RIGHT_PAREN", c))
          [] c = "\"" -> handleString(s)
          [] c = "=" ->
                IF peek(s) = "="
                THEN advance(advance(pushToken(s, "EQUALS", "==")))
                ELSE advance(pushToken(s, "ASSIGN", "="))
          [] c = "!" ->
                IF peek(s) = "="
                THEN advance(advance(pushToken(s, "NOT_EQUALS", "!=")))
                ELSE handleError(s, "!")
          [] c = "+" -> advance(pushToken(s, "INT_OP", c))
          [] c = "$" -> scanEop(s)
          [] c = "/" ->
                IF peek(s) = "*"
                THEN skipComment(advance(advance(s)))
                ELSE advance(handleError(s, "Unexpected character after '/'"))
          [] isDigit(c) -> advance(pushToken(s, "DIGIT", c))
          [] c \in {" ", "\n", "\t", "\r"} -> advance(s)
          [] isLetter(c) -> scanWord(s)
          [] OTHER -> advance(handleError(s, "Unrecognized character"))

\* tokenize finishing without the missing-EOP check: the variant the
\* formula of C15 tells apart from finishLex.
Mut_finishLex(s) ==
    LET s2 == IF s.commentDepth > 0
              THEN handleError(s, "Unclosed comment block(s)")
              ELSE s
    IN  IF s2.errors > 0
        THEN addLog(s2, "ERROR", "Lex failed")
        ELSE addLog(s2, "INFO", "Lex completed")

\* After the loop (lines 715-739): the missing-EOP check, the unclosed
\* comment check and the completion entry.
finishLex(s) ==
    LET s1 == IF Len(s.tokens) > 0 /\ Last(s.tokens).type # "EOP"
              THEN pushToken(
                     addWarning(s, "Missing end of program symbol ($)"),
                     "EOP", "$")
              ELSE s
        s2 == IF s1.commentDepth > 0
              THEN handleError(s1, "Unclosed comment block(s)")
              ELSE s1
    IN  IF s2.errors > 0
        THEN addLog(s2, "ERROR", "Lex failed")
        ELSE addLog(s2, "INFO", "Lex completed")

\* The fields after the constructor (lines 69-85).
newLexer ==
    [position |-> 0, tokens |-> <<>>, errors |-> 0, warnings |-> 0,
     programCounter |-> 1, inPrintStatement |-> FALSE, commentDepth |-> 0,
     logs |-> <<[level |-> "INFO", message |-> "Lexing program"]>>]

idleLexer ==
    [position |-> 0, tokens |-> <<>>, errors |-> 0, warnings |-> 0,
     programCounter |-> 0, inPrintStatement |-> FALSE, commentDepth |-> 0,
     logs |-> <<>>]

\* ------------------------------------------------------------------------
\* The parser: class Parser of src/unnamed/part_000
\*
\* A token is [type, value].  current is 0-based as in the source.  The
\* pure parts of the descent work on a record p = [current, errors, logs,
\* threw]: threw is TRUE from the moment error() has thrown (it reads
\* peek().line past the last token) until a catch clause is reached; while
\* it is TRUE check() answers FALSE and advance() and error() do nothing,
\* which is how the statements an exception skips are left out.  logs
\* keeps the INFO and ERROR entries; the DEBUG entries are left out.
\* A CST node is [type, value, token, children]; a node without a value
\* has "" and a node without a token has NoToken.  The value of a literal
\* node is kept as the token's text.
\* ------------------------------------------------------------------------

NoToken == [type |-> "NONE", value |-> ""]

mkNode(type, value, token, children) ==
    [type |-> type, value |-> value, token |-> token, children |-> children]

addChild(node, child) == [node EXCEPT !.children = Append(@, child)]

NoNode == mkNode("None", "", NoToken, <<>>)

isAtEnd(p) == p.current >= Len(ptokens)

parserPeek(p) == ptokens[p.current + 1]

parserPrevious(p) == ptokens[p.current]

check(p, type) ==
    /\ ~p.threw
    /\ ~isAtEnd(p)
    /\ parserPeek(p).type = type

parserAdvance(p) ==
    IF p.threw \/ isAtEnd(p) THEN p ELSE [p EXCEPT !.current = @ + 1]

\* Parser.error (lines 669-673): errors++, then the entry is built from
\* peek().line, which throws a TypeError when no token is left.  It does
\* not throw otherwise, and the caller carries on.
parserError(p, message) ==
    IF p.threw THEN p
    ELSE LET q == IF p.errors >= MaxParseErrors THEN p
                  ELSE [p EXCEPT !.errors = @ + 1]
         IN  IF isAtEnd(p) THEN [q EXCEPT !.threw = TRUE]
             ELSE IF p.errors >= MaxParseErrors THEN q
             ELSE [q EXCEPT !.logs =
                     Append(@, [level |-> "ERROR", message |-> message])]

\* A terminal's node for the token just consumed.
leaf(type, p) ==
    mkNode(type, parserPrevious(p).value, parserPrevious(p), <<>>)

\* stringLiteral (lines 570-620).
RECURSIVE charLoop(_, _)
charLoop(p, node) ==
    IF ~isAtEnd(p) /\ check(p, "CHAR")
    THEN LET q == parserAdvance(p)
         IN  charLoop(q, addChild(
                 [node EXCEPT !.value = @ \o parserPrevious(q).value],
                 leaf("Character", q)))
    ELSE [p |-> p, node |-> node]

stringLiteral(p0) ==
    LET p1 == parserAdvance(p0)
        r  == charLoop(p1, mkNode("StringLiteral", "", NoToken,
                              <<leaf("Quote", p1)>>))
    IN  IF check(r.p, "QUOTE")
        THEN LET q == parserAdvance(r.p)
             IN  [p |-> q, node |-> addChild(r.node, leaf("Quote", q))]
        ELSE [p |-> parserError(r.p, "Unterminated string"), node |-> r.node]

binaryNode(left, p, right) ==
    mkNode("BinaryExpression", "", NoToken,
           <<left, leaf("Operator", p), right>>)

\* The expression grammar (lines 389-567).  Its methods call one another
\* in a cycle (primary calls expression for a parenthesized group), so
\* they are the cases of one recursive operator: parseRule(rule, x) is
\* the method named rule run in parser state x, giving [p, node].  For
\* the loops of term and of equality, x is the [p, node] built so far.
RECURSIVE parseRule(_, _)
parseRule(rule, x) ==
    CASE rule = "expression" ->                       \* lines 389-392
           parseRule("assignment", x)
      [] rule = "assignment" ->                       \* lines 395-430
           LET r == parseRule("equality", x)
           IN  IF check(r.p, "ASSIGN")
               THEN LET q == parserAdvance(r.p)
                    IN  IF r.node.type = "Identifier"
                        THEN LET v == parseRule("assignment", q)
                             IN  [p |-> v.p,
                                  node |-> mkNode("Assignment", "", NoToken,
                                      <<r.node, leaf("AssignOperator", q),
                                        v.node>>)]
                        ELSE [p |-> parserError(q,
                                        "Invalid assignment target"),
                              node |-> r.node]
               ELSE r
      [] rule = "equality" ->                         \* lines 433-458
           parseRule("equalityLoop", parseRule("comparison", x))
      [] rule = "equalityLoop" ->                     \* lines 438-456
           IF check(x.p, "EQUALS") \/ check(x.p, "NOT_EQUALS")
           THEN LET q == parserAdvance(x.p)
                    right == parseRule("comparison", q)
                IN  parseRule("equalityLoop",
                        [p |-> right.p,
                         node |-> binaryNode(x.node, q, right.node)])
           ELSE x
      [] rule = "comparison" ->                       \* lines 461-464
           parseRule("term", x)
      [] rule = "term" ->                             \* lines 467-492
           parseRule("termLoop", parseRule("factor", x))
      [] rule = "termLoop" ->                         \* lines 473-489
           IF check(x.p, "INT_OP")
           THEN LET q == parserAdvance(x.p)
                    right == parseRule("factor", q)
                IN  parseRule("termLoop",
                        [p |-> right.p,
                         node |-> binaryNode(x.node, q, right.node)])
           ELSE x
      [] rule = "factor" ->                           \* lines 495-498
           parseRule("primary", x)
      [] OTHER ->                                     \* primary, lines 501-567
           \* After error() the Error node is returned with no token
           \* consumed.
           IF check(x, "DIGIT")
           THEN LET q == parserAdvance(x)
                IN  [p |-> q, node |-> leaf("NumberLiteral", q)]
           ELSE IF check(x, "QUOTE") THEN stringLiteral(x)
           ELSE IF check(x, "BOOLEAN_VALUE")
           THEN LET q == parserAdvance(x)
                IN  [p |-> q, node |-> leaf("BooleanLiteral", q)]
           ELSE IF check(x, "IDENTIFIER")
           THEN LET q == parserAdvance(x)
                IN  [p |-> q, node |-> leaf("Identifier", q)]
           ELSE IF check(x, "LEFT_PAREN")
           THEN LET q == parserAdvance(x)
                    r == parseRule("expression", q)
                    n == mkNode("GroupExpression", "", NoToken,
                                <<leaf("LeftParen", q), r.node>>)
                IN  IF check(r.p, "RIGHT_PAREN")
                    THEN LET q2 == parserAdvance(r.p)
                         IN  [p |-> q2,
                              node |-> addChild(n, leaf("RightParen", q2))]
                    ELSE [p |-> parserError(r.p,
                                    "Expected closing parenthesis"),
                          node |-> n]
           ELSE [p |-> parserError(x, "Expected expression"),
                 node |-> mkNode("Error", "", NoToken, <<>>)]

expression(p) == parseRule("expression", p)

primary(p) == parseRule("primary", p)

\* printStatement (lines 143-192).
printStatement(p0) ==
    LET p1 == parserAdvance(p0)
        n1 == mkNode("PrintStatement", "", parserPrevious(p1), <<>>)
    IN  IF check(p1, "LEFT_PAREN")
        THEN LET p2 == parserAdvance(p1)
                 n2 == addChild(n1, leaf("LeftParen", p2))
                 r  == IF check(p2, "QUOTE") THEN stringLiteral(p2)
                       ELSE expression(p2)
                 n3 == addChild(n2, r.node)
             IN  IF check(r.p, "RIGHT_PAREN")
                 THEN LET q == parserAdvance(r.p)
                      IN  [p |-> q,
                           node |-> addChild(n3, leaf("RightParen", q))]
                 ELSE [p |-> parserError(r.p,
                          "Expected closing parenthesis after print statement"),
                       node |-> n3]
        ELSE [p |-> parserError(p1,
                 "Expected opening parenthesis after print keyword"),
              node |-> n1]

\* varDeclaration (lines 323-371).
varDeclaration(p0) ==
    LET p1 == parserAdvance(p0)
        n1 == mkNode("VariableDeclaration", "", parserPrevious(p1),
                    <<leaf("Type", p1)>>)
    IN  IF check(p1, "IDENTIFIER")
        THEN LET p2 == parserAdvance(p1)
                 n2 == addChild(n1, leaf("Identifier", p2))
             IN  IF check(p2, "ASSIGN")
                 THEN LET p3 == parserAdvance(p2)
                          r  == expression(p3)
                      IN  [p |-> r.p,
                           node |-> addChild(
                               addChild(n2, leaf("AssignOperator", p3)),
                               r.node)]
                 ELSE [p |-> p2, node |-> n2]
        ELSE [p |-> parserError(p1, "Expected identifier after type"),
              node |-> n1]

\* expressionStatement (lines 374-386).
expressionStatement(p) ==
    LET r == expression(p)
    IN  [p |-> r.p,
         node |-> mkNode("ExpressionStatement", "", NoToken, <<r.node>>)]

\* The part of whileStatement (lines 195-245) and of ifStatement (lines
\* 248-320) up to the call of block(): the keyword, the parenthesized
\* condition.  enter is TRUE when block() is called next.
conditionHead(p0, type, noBlock, noClose, noOpen) ==
    LET p1 == parserAdvance(p0)
        n1 == mkNode(type, "", parserPrevious(p1), <<>>)
    IN  IF check(p1, "LEFT_PAREN")
        THEN LET p2 == parserAdvance(p1)
                 r  == expression(p2)
                 n2 == addChild(addChild(n1, leaf("LeftParen", p2)), r.node)
             IN  IF check(r.p, "RIGHT_PAREN")
                 THEN LET p3 == parserAdvance(r.p)
                          n3 == addChild(n2, leaf("RightParen", p3))
                      IN  IF check(p3, "OPEN_BLOCK")
                          THEN [p |-> p3, node |-> n3, enter |-> TRUE]
                          ELSE [p |-> parserError(p3, noBlock),
                                node |-> n3, enter |-> FALSE]
                 ELSE [p |-> parserError(r.p, noClose),
                       node |-> n2, enter |-> FALSE]
        ELSE [p |-> parserError(p1, noOpen), node |-> n1, enter |-> FALSE]

\* statement (lines 122-140): the dispatch on the next token.  frame is
\* the kind of call that is suspended when block() is entered.
statement(p) ==
    IF check(p, "PRINT")
    THEN printStatement(p) @@ [enter |-> FALSE, frame |-> "none"]
    ELSE IF check(p, "WHILE")
    THEN conditionHead(p, "WhileStatement",
                       "Expected block after while condition",
                       "Expected closing parenthesis after while condition",
                       "Expected opening parenthesis after while keyword")
         @@ [frame |-> "while"]
    ELSE IF check(p, "IF")
    THEN conditionHead(p, "IfStatement",
                       "Expected block after if condition",
                       "Expected closing parenthesis after if condition",
                       "Expected opening parenthesis after if keyword")
         @@ [frame |-> "ifThen"]
    ELSE IF check(p, "I_TYPE") \/ check(p, "S_TYPE") \/ check(p, "B_TYPE")
    THEN varDeclaration(p) @@ [enter |-> FALSE, frame |-> "none"]
    ELSE expressionStatement(p) @@ [enter |-> FALSE, frame |-> "none"]

\* synchronize (lines 675-694).
RECURSIVE syncLoop(_)
syncLoop(p) ==
    IF isAtEnd(p) THEN p
    ELSE IF parserPrevious(p).type = "CLOSE_BLOCK" THEN p
    ELSE IF parserPeek(p).type \in
              {"I_TYPE", "S_TYPE", "B_TYPE", "IF", "WHILE", "PRINT"} THEN p
    ELSE syncLoop(parserAdvance(p))

synchronize(p) == syncLoop(parserAdvance(p))

\* ---- the calls of block() and what follows them ----
\*
\* block() is the one method whose loop the model takes a step at a time.
\* stack holds the suspended calls, innermost last: a frame
\* [kind, node, aux, mode] of kind "block" is a call of block() (mode
\* "loop" inside its while loop, "close" after a break), and the frames of
\* kind "program", "while", "ifThen" and "ifElse" are the callers waiting
\* for a block() they called, with the node they have built so far.

frameOf(kind, node, aux, mode) ==
    [kind |-> kind, node |-> node, aux |-> aux, mode |-> mode]

Pop(stack) == SubSeq(stack, 1, Len(stack) - 1)

\* The outcome of a step: the parser's fields, the stack, and the result
\* of parse() once it has returned.
outcome(p, stack, pc, ast, astNull) ==
    [current |-> p.current, errors |-> p.errors, logs |-> p.logs,
     stack |-> stack, ast |-> ast, astNull |-> astNull, pc |-> pc]

\* parse() returns normally (lines 30-38).
finishParse(p, node) ==
    outcome([p EXCEPT !.logs = Append(@,
                IF p.errors = 0
                THEN [level |-> "INFO",
                      message |-> "Parsing completed successfully"]
                ELSE [level |-> "ERROR", message |-> "Parsing failed"])],
            <<>>, "done", node, FALSE)

\* The catch clause of parse() (lines 39-42).
fatalParse(p) ==
    outcome([p EXCEPT !.logs = Append(@,
                [level |-> "ERROR", message |-> "Fatal error"])],
            <<>>, "done", NoNode, TRUE)

\* block() is called (lines 80-88): the caller is suspended as
\* frameOf(kind, node, aux), the opening brace is consumed.
enterBlock(p, stack, kind, node, aux) ==
    LET q == parserAdvance(p)
    IN  outcome(q,
                stack \o <<frameOf(kind, node, aux, "none"),
                           frameOf("block",
                                   mkNode("Block", "", parserPrevious(q), <<>>),
                                   NoNode, "loop")>>,
                "run", NoNode, FALSE)

\* The catch clause of block() (lines 95-102) in the call at the top of
\* stack: synchronize, and break when no statement can follow.
catchInBlock(p, stack) ==
    LET q == synchronize([p EXCEPT !.threw = FALSE])
        top == Last(stack)
    IN  outcome(q,
                Pop(stack) \o
                  <<[top EXCEPT !.mode =
                        IF isAtEnd(q) \/ check(q, "CLOSE_BLOCK")
                        THEN "close" ELSE "loop"]>>,
                "run", NoNode, FALSE)

\* An exception leaves the calls at the top of stack until one of block()
\* is reached, whose loop body holds the try; with none left it reaches
\* the catch clause of parse().
RECURSIVE unwind(_, _)
unwind(p, stack) ==
    IF stack = <<>> THEN fatalParse(p)
    ELSE IF Last(stack).kind = "block" THEN catchInBlock(p, stack)
    ELSE unwind(p, Pop(stack))

\* statement() returns node to the loop of the block() call at the top of
\* stack (lines 92-93).
deliver(p, stack, node) ==
    LET top == Last(stack)
    IN  outcome(p, Pop(stack) \o <<[top EXCEPT !.node = addChild(@, node)]>>,
                "run", NoNode, FALSE)

\* block() has returned node to the caller at the top of stack, which
\* carries on: program() (lines 56-75), whileStatement() (lines 232-244)
\* or ifStatement() (lines 285-319).
resume(p, stack, node) ==
    LET top  == Last(stack)
        rest == Pop(stack)
    IN  IF p.threw THEN unwind(p, rest)
        ELSE IF top.kind = "program"
        THEN LET n == addChild(top.node, node)
             IN  IF check(p, "EOP")
                 THEN LET q == parserAdvance(p)
                      IN  finishParse(q, addChild(n, leaf("EndOfProgram", q)))
                 ELSE LET q == parserError(p,
                                 "Expected end of program symbol ($)")
                      IN  IF q.threw THEN fatalParse(q) ELSE finishParse(q, n)
        ELSE IF top.kind = "while"
        THEN deliver(p, rest, addChild(top.node, node))
        ELSE IF top.kind = "ifThen"
        THEN LET n == addChild(top.node, [node EXCEPT !.type = "ThenBlock"])
             IN  IF check(p, "ELSE")
                 THEN LET q == parserAdvance(p)
                          elseNode == mkNode("ElseClause", "",
                                             parserPrevious(q), <<>>)
                      IN  IF check(q, "OPEN_BLOCK")
                          THEN enterBlock(q, rest, "ifElse", n, elseNode)
                          ELSE LET q2 == parserError(q,
                                          "Expected block after else keyword")
                               IN  IF q2.threw THEN unwind(q2, rest)
                                   ELSE deliver(q2, rest,
                                                addChild(n, elseNode))
                 ELSE deliver(p, rest, n)
        ELSE \* "ifElse"
             deliver(p, rest,
                     addChild(top.node,
                              addChild(top.aux,
                                       [node EXCEPT !.type = "ElseBlock"])))

\* program() up to its call of block() (lines 46-56 and 71-76).
startParse(p) ==
    LET root == mkNode("Program", "", NoToken, <<>>)
    IN  IF check(p, "OPEN_BLOCK")
        THEN enterBlock(p, <<>>, "program", root, NoNode)
        ELSE LET q == parserError(p,
                        "Program must start with an opening brace ({)")
             IN  IF q.threw THEN fatalParse(q) ELSE finishParse(q, root)

\* One iteration of the statement loop of block() (lines 91-103), up to
\* the end of the iteration or to the call of a nested block().
blockIteration(p, stack) ==
    LET r == statement(p)
    IN  IF r.p.threw THEN catchInBlock(r.p, stack)
        ELSE IF r.enter THEN enterBlock(r.p, stack, r.frame, r.node, NoNode)
        ELSE deliver(r.p, stack, r.node)

\* The end of block() (lines 106-118) and the return to its caller.
blockClose(p, stack) ==
    LET top == Last(stack)
    IN  IF check(p, "CLOSE_BLOCK")
        THEN LET q == parserAdvance(p)
             IN  resume(q, Pop(stack), addChild(top.node, leaf("BlockEnd", q)))
        ELSE resume(parserError(p, "Expected closing brace (})"),
                    Pop(stack), top.node)

\* The loop condition of block() (line 91) for the call at the top of stack.
inBlockLoop(ps) ==
    /\ ps.stack # <<>>
    /\ Last(ps.stack).kind = "block"
    /\ Last(ps.stack).mode = "loop"
    /\ ps.current < Len(ptokens)
    /\ ptokens[ps.current + 1].type # "CLOSE_BLOCK"

\* The fields after the constructor (lines 17-25).
newParser ==
    [current |-> 0, errors |-> 0,
     logs |-> <<[level |-> "INFO", message |-> "Starting parsing process"]>>,
     stack |-> <<>>, ast |-> NoNode, astNull |-> TRUE]

idleParser ==
    [current |-> 0, errors |-> 0, logs |-> <<>>, stack |-> <<>>,
     ast |-> NoNode, astNull |-> TRUE]

running(ps) ==
    [current |-> ps.current, errors |-> ps.errors, logs |-> ps.logs,
     threw |-> FALSE]

applyOutcome(o) ==
    /\ parser' = [current |-> o.current, errors |-> o.errors, logs |-> o.logs,
                  stack |-> o.stack, ast |-> o.ast, astNull |-> o.astNull]
    /\ parsePc' = o.pc

ParseIdle ==
    /\ ptokens = <<>>
    /\ parser = idleParser
    /\ parsePc = "idle"

LexIdle ==
    /\ input = <<>>
    /\ lexer = idleLexer
    /\ lexPc = "idle"

\* ------------------------------------------------------------------------
\* The lowering of the parser's tree: class ASTAdapter of
\* src/src/combinedAnalyzer.ts (lines 50-600)
\*
\* A node of the AST is [type, children]; line, column and the fields of
\* the statements are left out.  NullAst stands for null.
\* ------------------------------------------------------------------------

astNode(type, children) == [type |-> type, children |-> children]

NullAst == astNode("null", <<>>)

\* The name property convertNode and its helpers read from a node of the
\* parser's tree.  Parser builds every node with the fields type, value,
\* children and token (src/unnamed/part_000 lines 8-13, and mkNode above):
\* no node has a name, so the property is undefined.
cstName(cstNode) == "undefined"

\* isStatementNode (lines 199-207).
isStatementNode(cstNode) ==
    cstName(cstNode) \in {"PrintStatement", "VariableDeclaration",
                          "AssignmentStatement", "WhileStatement",
                          "IfStatement"}

\* The cases of convertNode (lines 73-87) that build the node of a
\* statement or of an expression with a method of their own: the node
\* they return is not null.
OwnCases ==
    {"PrintStatement", "VariableDeclaration", "AssignmentStatement",
     "WhileStatement", "IfStatement", "BooleanExpression", "Expression",
     "StringExpression", "Identifier"}

nonNull(nodes) == SelectSeq(nodes, LAMBDA n : n # NullAst)

\* convertNode (lines 60-127) with convertPrograms (lines 132-149),
\* convertProgram (lines 154-172) and convertBlock (lines 177-196).
RECURSIVE convertNode(_)
convertNode(cstNode) ==
    LET name == cstName(cstNode)
        cs == cstNode.children
        lowered(nodes) == nonNull([i \in 1..Len(nodes) |->
                                      convertNode(nodes[i])])
    IN  CASE name = "Programs" ->
               IF Len(lowered(cs)) = 1 THEN lowered(cs)[1]
               ELSE astNode("Program", lowered(cs))
          [] name = "Program" ->
               astNode("Program",
                   lowered(SelectSeq(cs, LAMBDA c :
                       cstName(c) = "Block" \/ isStatementNode(c))))
          [] name = "Block" ->
               LET lists == SelectSeq(cs, LAMBDA c :
                                cstName(c) = "StatementList")
               IN  astNode("Block",
                       IF lists = <<>> THEN <<>>
                       ELSE lowered(lists[1].children))
          [] name = "StatementList" ->
               astNode("Block", lowered(cs))
          [] name \in OwnCases ->
               astNode(name, <<>>)
          [] OTHER ->
               IF cs # <<>> THEN convertNode(cs[1]) ELSE NullAst

\* ASTAdapter.convert (lines 52-55) of what parse() returned.
convert(cstRoot, isNull) ==
    IF isNull THEN NullAst ELSE convertNode(cstRoot)

\* ------------------------------------------------------------------------
\* The semantic analyzer: class SemanticAnalyzer of
\* src/src/combinedAnalyzer.ts (lines 602-1281)
\*
\* The analyzer's fields are the record s = [currentScope, scopeStack,
\* symbolTable, issues, returned].  symbolTable is the sequence of the
\* entries in the order addSymbol pushed them; the entries the Map holds
\* under a name are the entries of that name, in this order.  An issue is
\* [type, kind, name, exprType, symType]: kind names the message template
\* and the other fields are what the template is filled with.  line and
\* column only label the issues and are left out.  A name is one lowercase
\* letter, which is all the lexer's IDENTIFIER token holds.
\* ------------------------------------------------------------------------

Names == {"a", "x"}

Types == {"int", "string"}

\* The lowercase letters of each message template and type name, for the
\* test message.includes(name) of checkForUnusedVariables (line 1157).
templateLetters(kind) ==
    CASE kind = "Redeclaration" ->        \* line 1192
           {"a","c","d","e","f","h","i","l","m","n","o","p","r","s","t"}
      [] kind = "AssignUndeclared" ->     \* line 939
           {"a","b","c","d","e","g","i","l","m","n","o","r","s","t","u","v"}
      [] kind = "UndefinedInExpr" ->      \* line 958
           {"a","b","d","e","f","i","l","n","o","p","r","s","v","x"}
      [] kind = "TypeMismatch" ->         \* line 970
           {"a","c","e","g","h","i","m","n","o","p","s","t","y"}
      [] kind = "Undefined" ->            \* line 1095
           {"a","b","d","e","f","i","l","n","r","v"}
      [] kind = "NoAst" ->                \* line 654
           {"a","d","e","f","g","i","l","m","n","o","p","r","s","t","u"}
      [] kind = "Unused" ->               \* line 1160
           {"a","b","c","d","e","i","l","n","r","s","t","u","v"}
      [] OTHER ->                         \* "InitUnused", line 1163
           {"a","b","d","e","i","l","n","r","s","t","u","v","z"}

typeLetters(type) ==
    CASE type = "int" -> {"i","n","t"}
      [] type = "string" -> {"g","i","n","r","s","t"}
      [] type = "boolean" -> {"a","b","e","l","n","o"}
      [] OTHER -> {}

messageIncludes(issue, name) ==
    name \in templateLetters(issue.kind) \cup {issue.name}
             \cup typeLetters(issue.exprType) \cup typeLetters(issue.symType)

\* addError and addWarning (lines 1254-1273).
addIssue(s, type, kind, name, exprType, symType) ==
    [s EXCEPT !.issues = Append(@,
        [type |-> type, kind |-> kind, name |-> name,
         exprType |-> exprType, symType |-> symType])]

addError(s, kind, name, exprType, symType) ==
    addIssue(s, "error", kind, name, exprType, symType)

\* enterScope (lines 1110-1115).
enterScope(s) ==
    [s EXCEPT !.currentScope = @ + 1,
              !.scopeStack = Append(@, s.currentScope + 1)]

\* The entries of the Map, name by name in the order the names were first
\* inserted, as indices of symbolTable (the order of the loops of lines
\* 1154-1155).
firstOf(table, i) ==
    CHOOSE j \in 1..i : /\ table[j].name = table[i].name
                        /\ \A k \in 1..(j - 1) : table[k].name # table[i].name

mapBefore(table, i, j) ==
    \/ firstOf(table, i) < firstOf(table, j)
    \/ firstOf(table, i) = firstOf(table, j) /\ i < j

RECURSIVE mapOrder(_, _)
mapOrder(table, left) ==
    IF left = {} THEN <<>>
    ELSE LET i == CHOOSE i \in left :
                      \A j \in left \ {i} : mapBefore(table, i, j)
         IN  <<i>> \o mapOrder(table, left \ {i})

\* checkForUnusedVariables (lines 1153-1169).  Its scope argument is not
\* read: every entry of the table is visited.
RECURSIVE unusedLoop(_, _)
unusedLoop(s, order) ==
    IF order = <<>> THEN s
    ELSE LET e == s.symbolTable[Head(order)]
             alreadyErrored ==
                 \E k \in 1..Len(s.issues) :
                     /\ messageIncludes(s.issues[k], e.name)
                     /\ s.issues[k].type = "error"
             s1 == IF ~alreadyErrored /\ ~e.isUsed
                   THEN addIssue(s, "warning", "Unused", e.name, "", "")
                   ELSE s
             s2 == IF ~alreadyErrored /\ e.isInitialized /\ ~e.isUsed
                   THEN addIssue(s1, "warning", "InitUnused", e.name, "", "")
                   ELSE s1
         IN  unusedLoop(s2, Tail(order))

checkForUnusedVariables(s) ==
    unusedLoop(s, mapOrder(s.symbolTable, 1..Len(s.symbolTable)))

\* exitScope (lines 1117-1127).
exitScope(s) ==
    LET s1 == checkForUnusedVariables(s)
        stack == SubSeq(s1.scopeStack, 1, Len(s1.scopeStack) - 1)
    IN  [s1 EXCEPT !.scopeStack = stack, !.currentScope = Last(stack)]

\* addSymbol (lines 1176-1203).
addSymbol(s, name, type) ==
    IF \E i \in 1..Len(s.symbolTable) :
           /\ s.symbolTable[i].name = name
           /\ s.symbolTable[i].scope = s.currentScope
    THEN addError(s, "Redeclaration", name, "", "")
    ELSE [s EXCEPT !.symbolTable = Append(@,
             [name |-> name, type |-> type, scope |-> s.currentScope,
              isInitialized |-> FALSE, isUsed |-> FALSE])]

\* getSymbol (lines 1209-1227): the index in symbolTable of the entry
\* returned, 0 for null.  For each element of the scope stack from the top,
\* the entries of the name are tried in the order they were pushed.
RECURSIVE getSymbolFrom(_, _, _)
getSymbolFrom(s, name, i) ==
    IF i < 1 THEN 0
    ELSE LET hits == {j \in 1..Len(s.symbolTable) :
                         /\ s.symbolTable[j].name = name
                         /\ s.symbolTable[j].scope <= s.scopeStack[i]}
         IN  IF hits # {}
             THEN CHOOSE j \in hits : \A k \in hits : j <= k
             ELSE getSymbolFrom(s, name, i - 1)

getSymbol(s, name) == getSymbolFrom(s, name, Len(s.scopeStack))

\* markInitialized and markUsed (lines 1232-1247).
markInitialized(s, name) ==
    LET i == getSymbol(s, name)
    IN  IF i # 0 THEN [s EXCEPT !.symbolTable[i].isInitialized = TRUE] ELSE s

markUsed(s, name) ==
    LET i == getSymbol(s, name)
    IN  IF i # 0 THEN [s EXCEPT !.symbolTable[i].isUsed = TRUE] ELSE s

\* An expression of the AST is [kind, name]: a literal of kind "int" or
\* "string", or the identifier name, of kind "id".
Lit(type) == [kind |-> type, name |-> ""]

Id(name) == [kind |-> "id", name |-> name]

Exprs == {Lit(t) : t \in Types} \cup {Id(n) : n \in Names}

\* analyzeVarDeclaration (lines 916-926).
analyzeVarDeclaration(s, name, type) == addSymbol(s, name, type)

\* analyzeAssignment comparing the types only when the expression is a
\* literal: the variant the formula of C20 tells apart from
\* analyzeAssignment.
Mut_analyzeAssignment(s, name, expr) ==
    LET i == getSymbol(s, name)
        s1 == markInitialized(s, name)
        j == getSymbol(s1, expr.name)
    IN  IF i = 0 THEN addError(s, "AssignUndeclared", name, "", "")
        ELSE IF expr.kind = "id" /\ j = 0
        THEN addError(s1, "UndefinedInExpr", expr.name, "", "")
        ELSE IF expr.kind # "id" /\ s1.symbolTable[i].type # expr.kind
        THEN addError(s1, "TypeMismatch", "", expr.kind,
                      s1.symbolTable[i].type)
        ELSE s1

\* analyzeAssignment (lines 931-977).
analyzeAssignment(s, name, expr) ==
    LET i == getSymbol(s, name)
        s1 == markInitialized(s, name)
        j == getSymbol(s1, expr.name)
        exprType == IF expr.kind = "id" THEN s1.symbolTable[j].type
                    ELSE expr.kind
    IN  IF i = 0 THEN addError(s, "AssignUndeclared", name, "", "")
        ELSE IF expr.kind = "id" /\ j = 0
        THEN addError(s1, "UndefinedInExpr", expr.name, "", "")
        ELSE IF s1.symbolTable[i].type # exprType
        THEN addError(s1, "TypeMismatch", "", exprType,
                      s1.symbolTable[i].type)
        ELSE s1

\* analyzeIdentifier (lines 1090-1103).
analyzeIdentifier(s, name) ==
    IF getSymbol(s, name) = 0 THEN addError(s, "Undefined", name, "", "")
    ELSE markUsed(s, name)

\* analyzePrintStatement (lines 1034-1038) with the cases of analyzeNode
\* (lines 840-874) its expression reaches.
analyzePrintStatement(s, expr) ==
    IF expr.kind = "id" THEN analyzeIdentifier(s, expr.name) ELSE s

hasErrors(s) == \E k \in 1..Len(s.issues) : s.issues[k].type = "error"

\* analyze returning the table whatever the issues are: the variant the
\* formula of C7 tells apart from analyzeReturn.
Mut_analyzeReturn(s) ==
    LET s1 == checkForUnusedVariables(s)
    IN  [s1 EXCEPT !.returned = s1.symbolTable]

\* analyze (lines 647-678) once the tree has been walked: the last sweep
\* for unused variables and the table that is returned.
analyzeReturn(s) ==
    LET s1 == checkForUnusedVariables(s)
    IN  [s1 EXCEPT !.returned =
            IF hasErrors(s1) THEN <<>> ELSE s1.symbolTable]

\* analyze (lines 655-663) when the constructor was given no tree.
analyzeNoAst(s) ==
    LET s1 == addError(s, "NoAst", "", "", "")
    IN  [s1 EXCEPT !.returned = s1.symbolTable]

\* The fields after the constructor (lines 617-640): scope 0, the stack
\* [-1], then enterScope().
newAnalyzer ==
    LET s0 == [currentScope |-> 0, scopeStack |-> <<-1>>,
               symbolTable |-> <<>>, issues |-> <<>>, returned |-> <<>>]
    IN  enterScope(s0)

idleAnalyzer ==
    [currentScope |-> 0, scopeStack |-> <<>>, symbolTable |-> <<>>,
     issues |-> <<>>, returned |-> <<>>]

\* What the walk has done so far, kept beside the analyzer's fields:
\* assigned is the sequence of the IDs enterScope has handed out, open the
\* blocks being analyzed (each block is numbered by its entry, innermost
\* last), declIn[i] the block in which entry i of symbolTable was declared,
\* stmts the number of statements analyzed, and lookup the name the last
\* statement looked up with the entry getSymbol returned for it.
newHistory ==
    [assigned |-> <<1>>, blocks |-> 0, open |-> <<>>, declIn |-> <<>>,
     stmts |-> 0, lookup |-> [asked |-> FALSE, name |-> "", found |-> 0]]

idleHistory ==
    [assigned |-> <<>>, blocks |-> 0, open |-> <<>>, declIn |-> <<>>,
     stmts |-> 0, lookup |-> [asked |-> FALSE, name |-> "", found |-> 0]]

SemIdle ==
    /\ sem = idleAnalyzer
    /\ semHist = idleHistory
    /\ semPc = "idle"

\* ------------------------------------------------------------------------
\* The code generator of src/src/codeGeneration.ts: class CodeGenerator
\* with generate(), the one that tags variables with placeholders
\*
\* The generator's fields are the record g = [code, staticTable,
\* stringPool, staticStart, currentHeapAddress, symbolTable, tempCounter,
\* currentScope, placeholders, result].  staticTable is the sequence of
\* [name, address] and stringPool the sequence of [str, addr], both in the
\* order the keys were inserted.  A placeholder tag "Tn" is the number n.
\* result is what generate() returned.  Its operators carry the prefix cg,
\* the methods of the two classes having the same names.
\* ------------------------------------------------------------------------

cgStaticStart == 31

cgHeapStart == 224

\* emitByte (lines 727-729) for each byte of bytes in turn.
cgEmit(g, bytes) ==
    [g EXCEPT !.code = @ \o [i \in 1..Len(bytes) |-> bytes[i] % 256]]

\* addPlaceholder (lines 686-692) followed by the two bytes that stand
\* for the address.
cgAddPlaceholder(g, tag) ==
    cgEmit([g EXCEPT !.placeholders =
                Append(@, [tag |-> tag, position |-> Len(g.code)])],
           <<0, 0>>)

\* allocateStatic (lines 591-599): [g, address].
cgAllocateStatic(g, name) ==
    LET hits == {i \in 1..Len(g.staticTable) : g.staticTable[i].name = name}
    IN  IF hits # {}
        THEN [g |-> g,
              address |-> g.staticTable[CHOOSE i \in hits : TRUE].address]
        ELSE [g |-> [g EXCEPT
                       !.staticTable = Append(@,
                           [name |-> name, address |-> g.staticStart]),
                       !.staticStart = @ + 1],
              address |-> g.staticStart]

\* findSymbol (lines 611-620): the index in symbolTable, 0 for undefined.
cgFindSymbol(g, name) ==
    LET hits == {i \in 1..Len(g.symbolTable) :
                    /\ g.symbolTable[i].name = name
                    /\ g.symbolTable[i].scope <= g.currentScope}
    IN  IF hits = {} THEN 0 ELSE CHOOSE i \in hits : \A j \in hits : j <= i

\* getStringAddress (lines 625-637): [g, address].
cgGetStringAddress(g, value) ==
    LET hits == {k \in 1..Len(g.stringPool) : g.stringPool[k].str = value}
    IN  IF hits # {}
        THEN [g |-> g, address |-> g.stringPool[CHOOSE k \in hits : TRUE].addr]
        ELSE [g |-> [g EXCEPT
                       !.stringPool = Append(@,
                           [str |-> value, addr |-> g.currentHeapAddress]),
                       !.currentHeapAddress = @ + Len(value) + 1],
              address |-> g.currentHeapAddress]

\* generateVarDecl (lines 212-254): the tag, the address, the symbol, and
\* STA with a placeholder.
cgGenerateVarDecl(g, name, type) ==
    LET tag == g.tempCounter
        r == cgAllocateStatic([g EXCEPT !.tempCounter = @ + 1], name)
        g1 == [r.g EXCEPT !.symbolTable = Append(@,
                  [type |-> type, name |-> name, address |-> r.address,
                   scope |-> g.currentScope, placeholderTag |-> tag])]
    IN  cgAddPlaceholder(cgEmit(g1, <<141>>), tag)

\* generateAssignment (lines 259-331) of an integer literal to a declared
\* variable.
cgGenerateAssignment(g, name, value) ==
    LET symbol == g.symbolTable[cgFindSymbol(g, name)]
    IN  cgAddPlaceholder(cgEmit(g, <<169, value, 141>>),
                         symbol.placeholderTag)

\* generatePrintStatement (lines 336-389) of a string literal or of a
\* declared variable.
cgGeneratePrintStatement(g, expr) ==
    IF expr.kind = "id"
    THEN LET symbol == g.symbolTable[cgFindSymbol(g, expr.name)]
         IN  cgEmit(cgAddPlaceholder(cgEmit(g, <<172>>),
                                     symbol.placeholderTag),
                    <<162, 1, 255>>)
    ELSE LET r == cgGetStringAddress(g, expr.value)
         IN  cgEmit(r.g, <<160, r.address, 162, 2, 255>>)

\* backpatchPlaceholders (lines 697-715): the placeholders from the k-th
\* on.  find() returns the first symbol that has the tag.
RECURSIVE cgBackpatchFrom(_, _)
cgBackpatchFrom(g, k) ==
    IF k > Len(g.placeholders) THEN g
    ELSE LET ph == g.placeholders[k]
             hits == {i \in 1..Len(g.symbolTable) :
                         g.symbolTable[i].placeholderTag = ph.tag}
             address == g.symbolTable[CHOOSE i \in hits :
                                          \A j \in hits : i <= j].address
         IN  IF hits = {} THEN cgBackpatchFrom(g, k + 1)
             ELSE cgBackpatchFrom(
                      [g EXCEPT !.code[ph.position + 1] = address % 256,
                                !.code[ph.position + 2] =
                                    (address \div 256) % 256],
                      k + 1)

cgBackpatchPlaceholders(g) == cgBackpatchFrom(g, 1)

\* The loops "while (this.code.length < n) emitByte(0x00)" (lines 126-128,
\* 669-671).
cgZeroFill(g, n) ==
    IF Len(g.code) < n THEN cgEmit(g, [i \in 1..(n - Len(g.code)) |-> 0])
    ELSE g

\* The entries of the pool sorted by address, highest first (line 649).
RECURSIVE cgSortDescending(_)
cgSortDescending(pool) ==
    IF pool = <<>> THEN <<>>
    ELSE LET k == CHOOSE k \in 1..Len(pool) :
                      \A j \in 1..Len(pool) : pool[j].addr <= pool[k].addr
         IN  <<pool[k]>> \o cgSortDescending(
                 SubSeq(pool, 1, k - 1) \o SubSeq(pool, k + 1, Len(pool)))

\* The last loop of addStringConstants (lines 666-680).
RECURSIVE cgEmitStrings(_, _)
cgEmitStrings(g, strings) ==
    IF strings = <<>> THEN g
    ELSE cgEmitStrings(
             cgEmit(cgZeroFill(g, Head(strings).addr),
                    Head(strings).str \o <<0>>),
             Tail(strings))

\* addStringConstants (lines 642-681): the literals, then "true" and
\* "false" at the next free addresses of the heap.  "true" and "false" are
\* never literals of the programs of the model.
cgAddStringConstants(g) ==
    LET trueAddr == g.currentHeapAddress
        falseAddr == trueAddr + 5
        strings == cgSortDescending(g.stringPool)
                     \o <<[str |-> <<116, 114, 117, 101>>, addr |-> trueAddr],
                          [str |-> <<102, 97, 108, 115, 101>>,
                           addr |-> falseAddr]>>
    IN  cgEmitStrings([g EXCEPT !.currentHeapAddress = falseAddr + 6],
                      strings)

\* generateComparisonCode (lines 494-545) for a BinaryExpression whose
\* operands are integer literals: LDX #left, LDA #right, CPX $0000,
\* LDA #0, BNE +2 and the constant loaded when the branch is not taken.
\* emitCpx writes the opcode and a two-byte address (lines 771-774).
cgGenerateComparisonCode(g, cond) ==
    cgEmit(g, <<162, cond.left, 169, cond.right, 236, 0, 0, 169, 0, 208, 2,
                169, IF cond.operator = "==" THEN 1 ELSE 0>>)

\* generateIfStatement (lines 394-415) up to the visit of the then branch:
\* the condition, STA/LDX/CPX on the temporary $0000, and BNE with the
\* operand 5.  The value of calculateJumpDistance (lines 550-554) is not
\* used.
cgIfHead(g, cond) ==
    cgEmit(cgGenerateComparisonCode(g, cond),
           <<141, 0, 0, 174, 0, 0, 236, 0, 0, 208, 5>>)

\* generateIfStatement (lines 421-426) between the two branches: LDA #1
\* and BNE with the operand 5.
cgElseSkip(g) == cgEmit(g, <<169, 1, 208, 5>>)

\* generateWhileStatement (lines 449-462) up to the visit of the body.
cgWhileHead(g, cond) ==
    cgEmit(cgGenerateComparisonCode(g, cond),
           <<141, 0, 0, 174, 0, 0, 236, 0, 0, 208, 0>>)

\* generateWhileStatement (lines 467-477) after the body: the backward
\* jump and the operand of the forward one.  loopStartPosition and
\* jumpInstPosition are 0-based as in the source.
cgWhileTail(g, loopStartPosition, jumpInstPosition) ==
    LET g1 == cgEmit(g, <<169, 1, 208>>)
        distanceBack == Len(g1.code) - loopStartPosition + 2
        g2 == cgEmit(g1, <<255 - distanceBack + 1>>)
        bodySize == Len(g2.code) - jumpInstPosition - 2
    IN  [g2 EXCEPT !.code[jumpInstPosition + 2] = bodySize + 2]

\* The guard of generateWhileStatement (lines 437-439) for a node whose
\* children array has the given length, 0 standing for no array at all.
cgInvalidWhile(children) == children < 2

\* The catch clause of generate (lines 134-138): the code returned is the
\* single byte BRK.
cgCatch(g) == [g EXCEPT !.result = <<0>>]

\* The fields after the constructor (lines 67-84).
newCodeGenerator ==
    [code |-> <<>>, staticTable |-> <<>>, stringPool |-> <<>>,
     staticStart |-> cgStaticStart, currentHeapAddress |-> cgHeapStart,
     symbolTable |-> <<>>, tempCounter |-> 0, currentScope |-> 0,
     placeholders |-> <<>>, result |-> <<>>]

\* generate (lines 89-109): the reset and the leading LDA.  symbolTable and
\* staticStart are not among the fields that are reset.
cgGenerateBegin(g) ==
    cgEmit([g EXCEPT !.code = <<>>, !.staticTable = <<>>,
                     !.stringPool = <<>>,
                     !.currentHeapAddress = cgHeapStart,
                     !.tempCounter = 0, !.currentScope = 0,
                     !.placeholders = <<>>],
           <<169, 0>>)

\* generateBlock (lines 191-207) is entered, and is left after its
\* children: an empty block emits NOP.
cgEnterBlock(g) == [g EXCEPT !.currentScope = @ + 1]

cgExitBlock(g, empty) ==
    LET g1 == IF empty THEN cgEmit(g, <<234>>) ELSE g
    IN  [g1 EXCEPT !.currentScope = @ - 1]

\* The rest of generate (lines 116-133): BRK, the placeholders, the fill
\* up to the heap and the strings; the code is returned.
cgGenerateEnd(g) ==
    LET g1 == cgBackpatchPlaceholders(cgEmit(g, <<0>>))
        g2 == cgAddStringConstants(cgZeroFill(g1, cgHeapStart - 1))
    IN  [g2 EXCEPT !.result = g2.code]

idleCodeGenerator ==
    [code |-> <<>>, staticTable |-> <<>>, stringPool |-> <<>>,
     staticStart |-> 0, currentHeapAddress |-> 0, symbolTable |-> <<>>,
     tempCounter |-> 0, currentScope |-> 0, placeholders |-> <<>>,
     result |-> <<>>]

\* What the runs of generate() have done, kept beside the generator's
\* fields: ast is the tree, as the sequence of its nodes in the order they
\* are visited ("open" and "close" for a Block), next the number of nodes
\* visited in this run, open the blocks being visited with the number of
\* children of each, base the value of staticStart when the run began,
\* decls the [tag, address, name] of each VarDeclaration of this run,
\* flows the if and while statements whose branch or body is being
\* visited, jumps the ones this run is through with, thrown whether this
\* run ended in the catch clause, and results the [image, staticTable,
\* stringPool] of each finished run.
newCgRun ==
    [ast |-> <<>>, next |-> 0, open |-> <<>>, base |-> cgStaticStart,
     decls |-> <<>>, flows |-> <<>>, jumps |-> <<>>, thrown |-> FALSE,
     results |-> <<>>]

CgIdle ==
    /\ cg = idleCodeGenerator
    /\ cgPc = "idle"
    /\ cgRun = newCgRun

\* ------------------------------------------------------------------------
\* The code generator: class CodeGenerator of src/unnamed/part_003, the
\* one with generateMultiple, which is what the driver calls
\*
\* The generator's fields are the record g = [code, staticTable,
\* stringPool, currentHeapAddress, symbolTable, currentScope, image].
\* code is the sequence of the bytes emitted, so code[a + 1] is the byte at
\* address a.  staticTable is the sequence of the names in the order they
\* were allocated, stringPool the sequence of [str, addr] in the order of
\* Object.entries.  A string is the sequence of its character codes.
\* image is the result pushed for the program.
\* ------------------------------------------------------------------------

staticStart == 60

heapStart == 224

HI_STRING == 242

TRUE_STRING == 245

FALSE_STRING == 250

ImageSize == 256

StrHi == <<104, 105>>

StrTrue == <<116, 114, 117, 101>>

StrFalse == <<102, 97, 108, 115, 101>>

\* The string of n characters of code c.
Rep(n, c) == [i \in 1..n |-> c]

\* emitByte (lines 791-793) for each byte of bytes in turn.
emit(g, bytes) ==
    [g EXCEPT !.code = @ \o [i \in 1..Len(bytes) |-> bytes[i] % 256]]

\* emitWord (lines 795-799): low byte first.
word(address) == <<address % 256, (address \div 256) % 256>>

emitLdaConst(g, value) == emit(g, <<169, value>>)

emitLdaMem(g, address) == emit(g, <<173>> \o word(address))

emitSta(g, address) == emit(g, <<141>> \o word(address))

emitLdyConst(g, value) == emit(g, <<160, value>>)

emitLdyMem(g, address) == emit(g, <<172>> \o word(address))

\* emitLdxConst and emitSys (lines 817-820, 842-844): the system call.
emitSysCall(g, call) == emit(g, <<162, call, 255>>)

\* The index in seq of the first element that satisfies Test, 0 for none.
indexOfName(table, name) ==
    LET hits == {i \in 1..Len(table) : table[i] = name}
    IN  IF hits = {} THEN 0 ELSE CHOOSE i \in hits : \A j \in hits : i <= j

\* allocateStatic (lines 659-669): [g, address].
allocateStatic(g, name) ==
    LET i == indexOfName(g.staticTable, name)
    IN  IF i # 0 THEN [g |-> g, address |-> staticStart + i - 1]
        ELSE [g |-> [g EXCEPT !.staticTable = Append(@, name)],
              address |-> staticStart + Len(g.staticTable)]

\* findSymbol (lines 681-693): the index in symbolTable, 0 for undefined.
findSymbol(g, name) ==
    LET hits == {i \in 1..Len(g.symbolTable) :
                    /\ g.symbolTable[i].name = name
                    /\ g.symbolTable[i].scope <= g.currentScope}
    IN  IF hits = {} THEN 0 ELSE CHOOSE i \in hits : \A j \in hits : j <= i

\* getStringAddress (lines 698-712): [g, address].
getStringAddress(g, value) ==
    LET hits == {k \in 1..Len(g.stringPool) : g.stringPool[k].str = value}
    IN  IF hits # {}
        THEN [g |-> g, address |-> g.stringPool[CHOOSE k \in hits : TRUE].addr]
        ELSE [g |-> [g EXCEPT
                       !.stringPool = Append(@,
                           [str |-> value, addr |-> g.currentHeapAddress]),
                       !.currentHeapAddress = @ + Len(value) + 1],
              address |-> g.currentHeapAddress]

\* generateVarDecl (lines 237-274): every type is initialized the same way.
generateVarDecl(g, name, type) ==
    LET r == allocateStatic(g, name)
        g1 == [r.g EXCEPT !.symbolTable = Append(@,
                  [type |-> type, name |-> name, address |-> r.address,
                   scope |-> g.currentScope])]
    IN  emitSta(emitLdaConst(g1, 0), r.address)

\* An expression is [kind, value, name]: an integer literal (kind "int"),
\* a string literal (kind "string") or an identifier (kind "id").
IntLit(value) == [kind |-> "int", value |-> <<value>>, name |-> ""]

StrLit(value) == [kind |-> "string", value |-> value, name |-> ""]

VarRef(name) == [kind |-> "id", value |-> <<>>, name |-> name]

\* generateAssignment with generateIntAssignment and
\* generateStringAssignment (lines 279-384) for a declared variable and an
\* expression of its type.
generateAssignment(g, name, expr) ==
    LET symbol == g.symbolTable[findSymbol(g, name)]
        r == getStringAddress(g, expr.value)
        g1 == IF expr.kind = "id"
              THEN emitLdaMem(g,
                       g.symbolTable[findSymbol(g, expr.name)].address)
              ELSE IF expr.kind = "int"
              THEN emitLdaConst(g, expr.value[1])
              ELSE emitLdaConst(r.g, r.address)
    IN  emitSta(g1, symbol.address)

\* generatePrintStatement (lines 389-453).
generatePrintStatement(g, expr) ==
    IF expr.kind = "id"
    THEN LET symbol == g.symbolTable[findSymbol(g, expr.name)]
         IN  emitSysCall(
                 emitLdyMem(emitLdaMem(g, symbol.address), symbol.address),
                 IF symbol.type = "int" THEN 1 ELSE 2)
    ELSE IF expr.kind = "int"
    THEN emitSysCall(emitLdyConst(g, expr.value[1]), 1)
    ELSE LET r == getStringAddress(g, expr.value)
         IN  emitSysCall(emitLdyConst(r.g, r.address), 2)

\* The loops "while (this.code.length < n) emitByte(0x00)" (lines 138-140,
\* 146-148, 725-727).
zeroFill(g, n) ==
    IF Len(g.code) < n THEN emit(g, [i \in 1..(n - Len(g.code)) |-> 0]) ELSE g

\* emitString (lines 738-745).
emitString(g, str) == emit(g, str \o <<0>>)

\* addStringConstants (lines 717-733): the entries from the k-th on.
RECURSIVE addStringConstantsFrom(_, _)
addStringConstantsFrom(g, k) ==
    IF k > Len(g.stringPool) THEN g
    ELSE LET e == g.stringPool[k]
         IN  IF e.addr >= HI_STRING /\ e.addr <= FALSE_STRING
             THEN addStringConstantsFrom(g, k + 1)
             ELSE addStringConstantsFrom(
                      emitString(zeroFill(g, e.addr), e.str), k + 1)

addStringConstants(g) == addStringConstantsFrom(g, 1)

\* The fields after the constructor (lines 74-93).
newGenerator ==
    [code |-> <<>>, staticTable |-> <<>>,
     stringPool |-> <<[str |-> StrTrue, addr |-> TRUE_STRING],
                      [str |-> StrFalse, addr |-> FALSE_STRING],
                      [str |-> StrHi, addr |-> HI_STRING]>>,
     currentHeapAddress |-> heapStart, symbolTable |-> <<>>,
     currentScope |-> 0, image |-> <<>>]

\* generateMultiple for one tree, up to the visit of the statements of
\* the program's block (lines 105-123, 216-218): the reset, the leading
\* LDA, and the block is entered.
generateBegin(g) ==
    emitLdaConst(
        [g EXCEPT !.code = <<>>, !.staticTable = <<>>,
                  !.stringPool = <<[str |-> StrHi, addr |-> HI_STRING],
                                   [str |-> StrTrue, addr |-> TRUE_STRING],
                                   [str |-> StrFalse, addr |-> FALSE_STRING]>>,
                  !.currentHeapAddress = heapStart,
                  !.symbolTable = <<>>, !.currentScope = 1],
        0)

\* The rest of generateMultiple (lines 219-234, 131-152): the block is
\* left (an empty one has emitted NOP), BRK, the fill up to the heap, the
\* strings, the fill up to 256 bytes.  No placeholder is ever added, so
\* backpatchPlaceholders changes nothing.
generateEnd(g, empty) ==
    LET g1 == IF empty THEN emit(g, <<234>>) ELSE g
        g2 == emit([g1 EXCEPT !.currentScope = @ - 1], <<0>>)
        g3 == zeroFill(addStringConstants(zeroFill(g2, heapStart)), ImageSize)
    IN  [g3 EXCEPT !.image = g3.code]

idleGenerator ==
    [code |-> <<>>, staticTable |-> <<>>, stringPool |-> <<>>,
     currentHeapAddress |-> 0, symbolTable |-> <<>>, currentScope |-> 0,
     image |-> <<>>]

GenIdle ==
    /\ gen = idleGenerator
    /\ genPc = "idle"
    /\ genStmts = 0

\* ------------------------------------------------------------------------
\* The driver: the click handler of src/index.html (lines 228-530)
\*
\* drv = [source, programs, runs]: the text of the source box, the
\* sub-programs it splits into, and one record per sub-program the
\* forEach has reached, the last one being the current one.  A run is
\* [stages, ast, errorLogs, analysis, issues, finished]: the stages started
\* for the sub-program in order, what the parser returned (a tree or null,
\* the number of its ERROR entries), whether the analyzer returned or
\* threw, the types of the issues it returned, and whether the iteration
\* is over.  The lexer and the parser
\* of a sub-program run as in LexSpec and ParseSpec; what the analyzer and
\* the generator return is an input of the driver.
\* ------------------------------------------------------------------------

\* sourceCode.split(/\$+/) (line 247).
RECURSIVE dropDollars(_)
dropDollars(src) ==
    IF src # <<>> /\ Head(src) = "$" THEN dropDollars(Tail(src)) ELSE src

RECURSIVE split(_, _)
split(src, piece) ==
    IF src = <<>> THEN <<piece>>
    ELSE IF Head(src) = "$"
    THEN <<piece>> \o split(dropDollars(src), <<>>)
    ELSE split(Tail(src), Append(piece, Head(src)))

\* String.prototype.trim (line 247).
RECURSIVE trim(_)
trim(p) ==
    IF p # <<>> /\ Head(p) \in {" ", "\n", "\t", "\r"} THEN trim(Tail(p))
    ELSE IF p # <<>> /\ Last(p) \in {" ", "\n", "\t", "\r"}
    THEN trim(SubSeq(p, 1, Len(p) - 1))
    ELSE p

\* The sub-programs (line 247): split, trim, and the empty ones dropped.
programSources(src) ==
    LET pieces == split(src, <<>>)
        trimmed == [i \in 1..Len(pieces) |-> trim(pieces[i])]
    IN  SelectSeq(trimmed, LAMBDA p : p # <<>>)

\* The condition of the semantic stage (line 313).
semanticGate(run) == run.ast /\ run.errorLogs = 0

\* The condition of the code generation stage without its test of the
\* issues: the variant the formula of C3 tells apart from codeGenGate.
Mut_codeGenGate(run) ==
    /\ run.ast
    /\ run.errorLogs = 0

\* The condition of the code generation stage (lines 391-392).
codeGenGate(run) ==
    /\ run.ast
    /\ run.errorLogs = 0
    /\ \A k \in 1..Len(run.issues) : run.issues[k] # "error"

newRun ==
    [stages |-> <<"lexer">>, ast |-> FALSE, errorLogs |-> 0,
     analysis |-> "none", issues |-> <<>>, finished |-> FALSE]

\* What the analyzer may hand to the driver: the types of the issues
\* analyze() returns, or an exception.
Analyses ==
    {[analysis |-> "returned", issues |-> l] :
        l \in {<<>>, <<"warning">>, <<"error">>, <<"warning", "error">>}}
    \cup {[analysis |-> "threw", issues |-> <<>>]}

idleDriver == [source |-> <<>>, programs |-> <<>>, runs |-> <<>>]

DrvIdle ==
    /\ drv = idleDriver
    /\ drvPc = "idle"

\* ------------------------------------------------------------------------
\* Specifications
\* ------------------------------------------------------------------------

\* The pieces the inputs of LexSpec are put together from.
\* A block comment that holds a block comment.
NestedComment == <<"/", "*", "/", "*", "*", "/", "*", "/">>

LexChunks ==
    { <<"{">>, <<")">>, <<"\"">>, <<"=">>, <<"!">>, <<"/">>,
      <<"/", "*">>, <<"*", "/">>, <<"$">>, <<"a">>, <<"1">>, <<" ">>,
      <<"\n">>, <<"p","r","i","n","t","(">>, NestedComment }

LexInputs == {Flatten(cs) : cs \in SeqsUpTo(LexChunks, MaxChunks)}

LexInit ==
    /\ input \in LexInputs
    /\ lexer = newLexer
    /\ lexPc = "scan"
    /\ ParseIdle
    /\ SemIdle
    /\ GenIdle
    /\ CgIdle
    /\ DrvIdle

\* One iteration of the scanning loop.
LexStep ==
    /\ lexPc = "scan"
    /\ lexer.position < Len(input)
    /\ lexer' = scanOne(lexer)
    /\ UNCHANGED <<input, lexPc>>
    /\ UNCHANGED exceptLex

\* The loop has ended: tokenize() finishes and returns.
LexFinish ==
    /\ lexPc = "scan"
    /\ lexer.position >= Len(input)
    /\ lexer' = finishLex(lexer)
    /\ lexPc' = "done"
    /\ UNCHANGED input
    /\ UNCHANGED exceptLex

LexNext == LexStep \/ LexFinish

vars == <<lexVars, parseVars, semVars, genVars, drvVars>>

LexSpec == LexInit /\ [][LexNext]_vars

\* The pieces the token lists of ParseSpec are put together from.
Tok(type, value) == [type |-> type, value |-> value]

ParseChunks ==
    { <<Tok("OPEN_BLOCK", "{")>>, <<Tok("CLOSE_BLOCK", "}")>>,
      <<Tok("EOP", "$")>>, <<Tok("LEFT_PAREN", "(")>>,
      <<Tok("RIGHT_PAREN", ")")>>, <<Tok("IDENTIFIER", "a")>>,
      <<Tok("ASSIGN", "=")>>, <<Tok("DIGIT", "1")>>, <<Tok("QUOTE", "\"")>>,
      <<Tok("I_TYPE", "int")>>, <<Tok("ELSE", "else")>>,
      <<Tok("PRINT", "print"), Tok("LEFT_PAREN", "(")>>,
      <<Tok("WHILE", "while"), Tok("LEFT_PAREN", "("),
        Tok("BOOLEAN_VALUE", "true"), Tok("RIGHT_PAREN", ")")>>,
      <<Tok("IF", "if"), Tok("LEFT_PAREN", "("),
        Tok("BOOLEAN_VALUE", "true"), Tok("RIGHT_PAREN", ")"),
        Tok("OPEN_BLOCK", "{"), Tok("CLOSE_BLOCK", "}")>> }

ParseInputs == {Flatten(cs) : cs \in SeqsUpTo(ParseChunks, MaxParseChunks)}

ParseInit ==
    /\ ptokens \in ParseInputs
    /\ parser = newParser
    /\ parsePc = "start"
    /\ LexIdle
    /\ SemIdle
    /\ GenIdle
    /\ CgIdle
    /\ DrvIdle

\* parse() is called: program() runs up to its call of block().
ParseStart ==
    /\ parsePc = "start"
    /\ applyOutcome(startParse(running(parser)))
    /\ UNCHANGED <<ptokens, exceptParse>>

\* One iteration of the statement loop of the innermost block().  The
\* iterations are followed until MaxParseErrors errors have been counted.
BlockIter ==
    /\ parsePc = "run"
    /\ inBlockLoop(parser)
    /\ parser.errors < MaxParseErrors
    /\ applyOutcome(blockIteration(running(parser), parser.stack))
    /\ UNCHANGED <<ptokens, exceptParse>>

\* The innermost block() leaves its loop and returns to its caller.
BlockClose ==
    /\ parsePc = "run"
    /\ ~inBlockLoop(parser)
    /\ applyOutcome(blockClose(running(parser), parser.stack))
    /\ UNCHANGED <<ptokens, exceptParse>>

ParseNext == ParseStart \/ BlockIter \/ BlockClose

ParseSpec == ParseInit /\ [][ParseNext]_vars

\* C2: for a token list that ends with EOP, each iteration of the statement
\* loop of block() consumes at least one token or leaves the loop.
C2_BlockLoopProgress ==
    [][(/\ parsePc = "run"
        /\ inBlockLoop(parser)
        /\ Last(ptokens).type = "EOP")
       => (parser'.current > parser.current \/ ~inBlockLoop(parser'))]_vars

NumErrors(logs) == Cardinality({i \in 1..Len(logs) : logs[i].level = "ERROR"})

\* The analyzer when analyze() is about to walk the tree: the constructor
\* (lines 617-640) has lowered the parser's tree, and analyze (lines
\* 653-662) records an error and returns when the result is null.
analyzerOf(cstRoot, isNull) ==
    IF convert(cstRoot, isNull) = NullAst THEN analyzeNoAst(newAnalyzer)
    ELSE newAnalyzer

\* C29: lowering the tree parse() returns for a syntactically valid
\* program yields an AST that is not null, whose root is a Program node
\* with the lowered top-level Block as its one child: for the tokens of
\* {} it is a Program holding one Block with no children, and the analyzer
\* records no error "Failed to generate AST".
C29_LoweringYieldsProgram ==
    (parsePc = "done" /\ ~parser.astNull /\ parser.errors = 0) =>
        LET ast == convert(parser.ast, parser.astNull)
        IN  /\ ast # NullAst
            /\ ast.type = "Program"
            /\ Len(ast.children) = 1
            /\ ast.children[1].type = "Block"
            /\ Len(ptokens) = 3 => ast.children[1].children = <<>>
            /\ \A k \in 1..Len(analyzerOf(parser.ast, parser.astNull).issues) :
                  analyzerOf(parser.ast, parser.astNull).issues[k].kind
                      # "NoAst"

\* The positions at which synchronize() stops (lines 678-690): no token is
\* left, the token just consumed is a closing brace, or the next token
\* starts a statement.
atStatementBoundary(ps) ==
    \/ ps.current >= Len(ptokens)
    \/ /\ ps.current > 0
       /\ ptokens[ps.current].type = "CLOSE_BLOCK"
    \/ ptokens[ps.current + 1].type \in
         {"I_TYPE", "S_TYPE", "B_TYPE", "IF", "WHILE", "PRINT"}

\* C21: whenever an iteration of the statement loop of block() records a
\* syntax error for a missing token, synchronize has run before the next
\* statement is parsed: the position the parser goes on from is one at
\* which synchronize stops (the token before it is a closing brace, the
\* next token is a type keyword, if, while or print, or no token is left).
C21_SynchronizeAfterError ==
    [][(/\ parsePc = "run"
        /\ inBlockLoop(parser)
        /\ parser'.errors > parser.errors)
       => atStatementBoundary(parser')]_vars


\* ------------------------------------------------------------------------
\* C1: tokenize terminates: every iteration of the scanning loop that logs
\* an ERROR entry leaves the scan position at least one character further
\* than it found it, so that the next token or error is read from a later
\* character.
\* ------------------------------------------------------------------------
C1_ErrorAdvances ==
    [][(lexPc = "scan" /\ lexPc' = "scan"
        /\ NumErrors(lexer'.logs) > NumErrors(lexer.logs))
       => lexer'.position > lexer.position]_vars


\* The types of the tokens tokenize() returned.
tokenTypes == [i \in 1..Len(lexer.tokens) |-> lexer.tokens[i].type]

\* The input print(E) for a one-character E.
PrintOf(e) == <<"p", "r", "i", "n", "t", "(", e, ")">>

\* C13: for the input print(E), E one identifier or one digit, the lexer
\* emits PRINT, LEFT_PAREN, the IDENTIFIER or DIGIT token of E and
\* RIGHT_PAREN, and records no ERROR.
C13_PrintOperandTokenized ==
    \A e \in {"a", "1"} :
        (lexPc = "done" /\ input = PrintOf(e)) =>
            /\ Len(lexer.tokens) >= 4
            /\ SubSeq(tokenTypes, 1, 4) =
                  <<"PRINT", "LEFT_PAREN",
                    IF isDigit(e) THEN "DIGIT" ELSE "IDENTIFIER",
                    "RIGHT_PAREN">>
            /\ lexer.tokens[3].value = IF isDigit(e) THEN e ELSE <<e>>
            /\ NumErrors(lexer.logs) = 0

\* The input is one string literal closed on its line: a quote, characters
\* that are lowercase letters or spaces, a quote.
isStringLiteral(in) ==
    /\ Len(in) >= 2
    /\ in[1] = "\""
    /\ in[Len(in)] = "\""
    /\ \A i \in 2..(Len(in) - 1) : in[i] \in Letters \cup {" "}

\* C14: for a string literal closed on its line whose characters are
\* lowercase letters or spaces, the lexer emits QUOTE, one CHAR token per
\* character in source order, spaces included, and QUOTE, and records no
\* ERROR.
C14_StringLiteralTokens ==
    (lexPc = "done" /\ isStringLiteral(input)) =>
        /\ Len(lexer.tokens) >= Len(input)
        /\ \A i \in 1..Len(input) :
              lexer.tokens[i] =
                  [type |-> IF i \in {1, Len(input)} THEN "QUOTE" ELSE "CHAR",
                   value |-> input[i]]
        /\ NumErrors(lexer.logs) = 0

\* The WARNING entries "Missing end of program symbol ($)" of a log.
missingEop(logs) ==
    {i \in 1..Len(logs) :
        /\ logs[i].level = "WARNING"
        /\ logs[i].message = "Missing end of program symbol ($)"}

\* C15: the token list tokenize returns ends with EOP when it is not
\* empty: if the last scanned token is not EOP, one warning "Missing end
\* of program symbol ($)" is logged and one EOP token is appended; if it
\* is EOP, nothing is appended and no such warning is logged.
C15_TokensEndWithEop ==
    [][(lexPc = "scan" /\ lexPc' = "done") =>
        /\ lexer'.tokens # <<>> => Last(lexer'.tokens).type = "EOP"
        /\ IF lexer.tokens # <<>> /\ Last(lexer.tokens).type # "EOP"
           THEN /\ lexer'.tokens =
                      Append(lexer.tokens, [type |-> "EOP", value |-> "$"])
                /\ Cardinality(missingEop(lexer'.logs)) = 1
           ELSE /\ lexer'.tokens = lexer.tokens
                /\ missingEop(lexer'.logs) = {}
    ]_vars

\* tokenize has returned a list to which it appended the EOP token.
C15_Witness ==
    /\ lexPc = "done"
    /\ missingEop(lexer.logs) # {}
    /\ Len(lexer.tokens) >= 2
    /\ lexer.tokens[Len(lexer.tokens) - 1].type # "EOP"
    /\ Last(lexer.tokens).type = "EOP"

\* The position after the "*/" that closes the comment whose text starts
\* at position p of the input at nesting depth d, -1 if nothing closes it.
RECURSIVE commentEnd(_, _)
commentEnd(p, d) ==
    IF p + 1 >= Len(input) THEN -1
    ELSE IF input[p + 1] = "/" /\ input[p + 2] = "*"
    THEN commentEnd(p + 2, d + 1)
    ELSE IF input[p + 1] = "*" /\ input[p + 2] = "/"
    THEN IF d = 1 THEN p + 2 ELSE commentEnd(p + 2, d - 1)
    ELSE commentEnd(p + 1, d)

\* The positions at which a block comment starts outside every other
\* comment, from position q on.
RECURSIVE outerComments(_)
outerComments(q) ==
    IF q + 1 >= Len(input) THEN {}
    ELSE IF input[q + 1] = "/" /\ input[q + 2] = "*"
    THEN {q} \cup (IF commentEnd(q + 2, 1) = -1 THEN {}
                   ELSE outerComments(commentEnd(q + 2, 1)))
    ELSE outerComments(q + 1)

\* C17: for every input that holds a block comment with balanced nesting
\* (and no string), the scan reaches the outer "/*" at the start of an
\* iteration, and that iteration emits no token and records no ERROR,
\* resumes at the character after the matching "*/", and leaves the
\* comment depth at 0.
C17_NestedCommentSkipped ==
    [][(lexPc = "scan" /\ \A i \in 1..Len(input) : input[i] # "\"") =>
        \A p \in outerComments(0) :
            (/\ commentEnd(p + 2, 1) # -1
             /\ lexer.position <= p
             /\ lexer'.position > p) =>
                /\ lexer.position = p
                /\ lexer'.tokens = lexer.tokens
                /\ NumErrors(lexer'.logs) = NumErrors(lexer.logs)
                /\ lexer'.position = commentEnd(p + 2, 1)
                /\ lexer'.commentDepth = 0
    ]_vars

\* The walk of analyze() over the tree, one node at a time.  The tree is
\* put together as it is walked: a block is entered or left, or a statement
\* of the innermost block is analyzed.
SemInit ==
    /\ sem = newAnalyzer
    /\ semHist = newHistory
    /\ semPc \in {"walk", "noAst"}
    /\ LexIdle
    /\ ParseIdle
    /\ GenIdle
    /\ CgIdle
    /\ DrvIdle

noLookup == [asked |-> FALSE, name |-> "", found |-> 0]

\* analyzeBlock (lines 897-911) is entered: enterScope.  The first block
\* is the one of the Program node; every other one is nested in an open
\* block.
SemEnterBlock ==
    /\ semPc = "walk"
    /\ semHist.blocks < MaxBlocks
    /\ semHist.open # <<>> \/ semHist.blocks = 0
    /\ sem' = enterScope(sem)
    /\ semHist' = [semHist EXCEPT
                     !.assigned = Append(@, sem'.currentScope),
                     !.blocks = @ + 1,
                     !.open = Append(@, semHist.blocks + 1),
                     !.lookup = noLookup]
    /\ UNCHANGED <<semPc, exceptSem>>

\* analyzeBlock has analyzed its children: exitScope.
SemExitBlock ==
    /\ semPc = "walk"
    /\ semHist.open # <<>>
    /\ sem' = exitScope(sem)
    /\ semHist' = [semHist EXCEPT
                     !.open = SubSeq(@, 1, Len(@) - 1),
                     !.lookup = noLookup]
    /\ UNCHANGED <<semPc, exceptSem>>

SemVarDecl ==
    /\ semPc = "walk"
    /\ semHist.open # <<>>
    /\ semHist.stmts < MaxStmts
    /\ \E name \in Names, type \in Types :
          /\ sem' = analyzeVarDeclaration(sem, name, type)
          /\ semHist' = [semHist EXCEPT
                           !.declIn =
                               IF Len(sem'.symbolTable) > Len(sem.symbolTable)
                               THEN Append(@, Last(semHist.open)) ELSE @,
                           !.stmts = @ + 1,
                           !.lookup = noLookup]
    /\ UNCHANGED <<semPc, exceptSem>>

SemAssign ==
    /\ semPc = "walk"
    /\ semHist.open # <<>>
    /\ semHist.stmts < MaxStmts
    /\ \E name \in Names, expr \in Exprs :
          /\ sem' = analyzeAssignment(sem, name, expr)
          /\ semHist' = [semHist EXCEPT
                           !.stmts = @ + 1,
                           !.lookup = [asked |-> TRUE, name |-> name,
                                       found |-> getSymbol(sem, name)]]
    /\ UNCHANGED <<semPc, exceptSem>>

SemPrint ==
    /\ semPc = "walk"
    /\ semHist.open # <<>>
    /\ semHist.stmts < MaxStmts
    /\ \E name \in Names :
          /\ sem' = analyzePrintStatement(sem, Id(name))
          /\ semHist' = [semHist EXCEPT
                           !.stmts = @ + 1,
                           !.lookup = [asked |-> TRUE, name |-> name,
                                       found |-> getSymbol(sem, name)]]
    /\ UNCHANGED <<semPc, exceptSem>>

\* The walk is over: analyze() sweeps for unused variables and returns.
SemFinish ==
    /\ semPc = "walk"
    /\ semHist.open = <<>>
    /\ semHist.blocks > 0
    /\ sem' = analyzeReturn(sem)
    /\ semPc' = "done"
    /\ semHist' = [semHist EXCEPT !.lookup = noLookup]
    /\ UNCHANGED exceptSem

\* analyze() for an analyzer that was given no tree.
SemNoAst ==
    /\ semPc = "noAst"
    /\ sem' = analyzeNoAst(sem)
    /\ semPc' = "done"
    /\ UNCHANGED <<semHist, exceptSem>>

SemNext ==
    \/ SemEnterBlock
    \/ SemExitBlock
    \/ SemVarDecl
    \/ SemAssign
    \/ SemPrint
    \/ SemFinish
    \/ SemNoAst

SemSpec == SemInit /\ [][SemNext]_vars

\* The entry of name declared in the innermost open block that declares
\* it, 0 when no open block declares it.
declaredIn(name, block) ==
    {i \in 1..Len(sem.symbolTable) :
        sem.symbolTable[i].name = name /\ semHist.declIn[i] = block}

innermost(name) ==
    LET ks == {k \in 1..Len(semHist.open) :
                  declaredIn(name, semHist.open[k]) # {}}
    IN  IF ks = {} THEN 0
        ELSE LET k == CHOOSE k \in ks : \A m \in ks : m <= k
             IN  CHOOSE i \in declaredIn(name, semHist.open[k]) : TRUE

\* C7: analyze returns an empty symbol table when the issue list holds an
\* issue of type error, and otherwise the table with every entry inserted
\* during the pass.
C7_TableSuppressedOnError ==
    semPc = "done" =>
        IF hasErrors(sem)
        THEN sem.returned = <<>>
        ELSE /\ sem.returned = sem.symbolTable
             /\ Len(sem.returned) = Len(semHist.declIn)

\* A pass that declared a variable and recorded an error has returned.
C7_Witness ==
    /\ semPc = "done"
    /\ hasErrors(sem)
    /\ sem.symbolTable # <<>>
    /\ sem.returned = <<>>

\* C8: a name looked up while an open block declares it resolves to the
\* entry of the innermost open block that declares it.
C8_InnermostDeclaration ==
    (semHist.lookup.asked /\ innermost(semHist.lookup.name) # 0)
        => semHist.lookup.found = innermost(semHist.lookup.name)

\* C9: getSymbol never returns an entry declared in a block that has
\* exited.
C9_ExitedBlockInvisible ==
    (semHist.lookup.asked /\ semHist.lookup.found # 0)
        => \E k \in 1..Len(semHist.open) :
               semHist.open[k] = semHist.declIn[semHist.lookup.found]

\* C10: each enterScope assigns an ID greater than every ID assigned
\* before it.
C10_ScopeIdsIncrease ==
    \A i, j \in 1..Len(semHist.assigned) :
        i < j => semHist.assigned[i] < semHist.assigned[j]

\* C11: a declaration of x records the error "Redeclaration of 'x' in the
\* same scope" and leaves the table unchanged exactly when the block being
\* analyzed has already declared x; otherwise it records no error and adds
\* the one entry [x, type, current scope, not initialized, not used]; and
\* no two entries share both name and scope.
C11_RedeclarationIffSameBlock ==
    [][(semPc = "walk" /\ semHist.open # <<>>) =>
        /\ (/\ Len(sem'.issues) > Len(sem.issues)
            /\ Last(sem'.issues).kind = "Redeclaration")
              => /\ declaredIn(Last(sem'.issues).name, Last(semHist.open)) # {}
                 /\ sem'.symbolTable = sem.symbolTable
        /\ Len(sem'.symbolTable) > Len(sem.symbolTable)
              => /\ declaredIn(Last(sem'.symbolTable).name,
                               Last(semHist.open)) = {}
                 /\ sem'.issues = sem.issues
                 /\ Len(sem'.symbolTable) = Len(sem.symbolTable) + 1
                 /\ Last(sem'.symbolTable).scope = sem.currentScope
                 /\ ~Last(sem'.symbolTable).isInitialized
                 /\ ~Last(sem'.symbolTable).isUsed
        /\ \A i, j \in 1..Len(sem'.symbolTable) :
              (/\ sem'.symbolTable[i].name = sem'.symbolTable[j].name
               /\ sem'.symbolTable[i].scope = sem'.symbolTable[j].scope)
                  => i = j
    ]_vars

\* The warnings "Variable 'x' declared but never used" of the issue list
\* for a name, and the entries of the name that were never used.
unusedWarnings(name) ==
    {k \in 1..Len(sem.issues) :
        sem.issues[k].kind = "Unused" /\ sem.issues[k].name = name}

unusedEntries(name) ==
    {i \in 1..Len(sem.symbolTable) :
        sem.symbolTable[i].name = name /\ ~sem.symbolTable[i].isUsed}

\* C12: the issue list analyze returns holds exactly one warning "Variable
\* 'x' declared but never used" for each declaration that is never used.
C12_OneWarningPerUnusedDeclaration ==
    (semPc = "done" /\ semHist.blocks > 0) =>
        \A name \in Names :
            Cardinality(unusedWarnings(name)) = Cardinality(unusedEntries(name))

\* The warnings of checkForUnusedVariables in an issue list.
sweepWarnings(issues) ==
    {k \in 1..Len(issues) : issues[k].kind \in {"Unused", "InitUnused"}}

\* C22: the sweep at the exit of a block adds warnings only for entries
\* declared in that block, so a variable of an enclosing block that is used
\* after a nested block has exited gets no "declared but never used" or
\* "initialized but never used" warning; and when analysis ends every
\* entry named in such a warning still has isUsed = FALSE.
C22_SweepOnlyExitedBlock ==
    [][/\ (/\ semPc = "walk"
           /\ Len(semHist'.open) < Len(semHist.open))
          => \A k \in sweepWarnings(sem'.issues) :
                 k > Len(sem.issues)
                   => declaredIn(sem'.issues[k].name, Last(semHist.open)) # {}
       /\ (semPc = "walk" /\ semPc' = "done")
          => \A k \in sweepWarnings(sem'.issues) :
                 \E i \in 1..Len(sem'.symbolTable) :
                     /\ sem'.symbolTable[i].name = sem'.issues[k].name
                     /\ ~sem'.symbolTable[i].isUsed
    ]_vars

\* C23: a declared identifier read in an expression (the right-hand side
\* of an assignment, the operand of print) has isUsed = TRUE on the entry
\* it resolves to once the statement has been analyzed, and the target of
\* an assignment is marked isInitialized while its isUsed is left as it
\* was.
C23_ReadIdentifierMarkedUsed ==
    [][\A name \in Names :
        (/\ semPc = "walk"
         /\ semHist'.stmts = semHist.stmts + 1
         /\ semHist'.lookup.asked
         /\ semHist'.lookup.name = name
         /\ getSymbol(sem, name) # 0) =>
            /\ sem' = analyzePrintStatement(sem, Id(name))
                 => sem'.symbolTable[getSymbol(sem, name)].isUsed
            /\ \A expr \in Exprs :
                 sem' = analyzeAssignment(sem, name, expr) =>
                    /\ sem'.symbolTable[getSymbol(sem, name)].isInitialized
                    /\ (expr.kind = "id" /\ getSymbol(sem, expr.name) # 0)
                         => sem'.symbolTable[
                                getSymbol(sem, expr.name)].isUsed
                    /\ (expr.kind # "id" \/ expr.name # name)
                         => sem'.symbolTable[getSymbol(sem, name)].isUsed
                              = sem.symbolTable[getSymbol(sem, name)].isUsed
    ]_vars

\* C28: a variable declared directly in the top-level block of the program
\* is recorded with scope 1 (the Program node opens no scope and the first
\* block entered gets the ID 1), and a variable declared in a block nested
\* directly inside it with scope 2.
C28_TopLevelScopeIsOne ==
    [][(/\ semPc = "walk"
        /\ Len(sem'.symbolTable) > Len(sem.symbolTable)) =>
           /\ Len(semHist.open) = 1 => Last(sem'.symbolTable).scope = 1
           /\ Len(semHist.open) = 2 => Last(sem'.symbolTable).scope = 2
    ]_vars

\* Every name has been declared at most once so far.
declaredOnce ==
    /\ \A i, j \in 1..Len(sem.symbolTable) :
          sem.symbolTable[i].name = sem.symbolTable[j].name => i = j
    /\ \A k \in 1..Len(sem.issues) : sem.issues[k].kind # "Redeclaration"

\* The type of an expression whose identifier, if it is one, is declared
\* in an open block.
typeOf(expr) ==
    IF expr.kind = "id" THEN sem.symbolTable[innermost(expr.name)].type
    ELSE expr.kind

\* The issues "Type mismatch in assignment" of an issue list.
mismatches(issues) ==
    {k \in 1..Len(issues) : issues[k].kind = "TypeMismatch"}

\* C20: in a program where every name is declared at most once, an
\* assignment whose target is declared and whose right-hand side is a
\* literal or a declared identifier records the error "Type mismatch in
\* assignment: Cannot assign <rhs> to <lhs>" once when the type of the
\* right-hand side differs from the declared type of the target, and
\* records no error when it does not.
C20_MismatchIffTypesDiffer ==
    [][\A name \in Names, expr \in Exprs :
        (/\ semPc = "walk"
         /\ declaredOnce
         /\ innermost(name) # 0
         /\ expr.kind = "id" => innermost(expr.name) # 0
         /\ semHist'.stmts = semHist.stmts + 1
         /\ semHist'.lookup.asked
         /\ semHist'.lookup.name = name
         /\ sem' = analyzeAssignment(sem, name, expr)) =>
            IF typeOf(expr) # sem.symbolTable[innermost(name)].type
            THEN sem'.issues = Append(sem.issues,
                     [type |-> "error", kind |-> "TypeMismatch", name |-> "",
                      exprType |-> typeOf(expr),
                      symType |-> sem.symbolTable[innermost(name)].type])
            ELSE sem'.issues = sem.issues
    ]_vars

\* An assignment of a declared variable to a declared variable of another
\* type has recorded the error, every name being declared once.
C20_Witness ==
    /\ semPc = "walk"
    /\ declaredOnce
    /\ Len(sem.symbolTable) = 2
    /\ sem.symbolTable[1].type # sem.symbolTable[2].type
    /\ semHist.lookup.asked
    /\ Cardinality(mismatches(sem.issues)) = 1
    /\ Last(sem.issues).kind = "TypeMismatch"
    /\ Last(sem.issues).exprType = sem.symbolTable[2].type
    /\ Last(sem.issues).symType = sem.symbolTable[1].type
    /\ Len(sem.issues) = 1

\* The strings of the programs of GenSpec: a reserved one, a short one,
\* and two whose lengths put the next string at HI_STRING and past the end
\* of the image.
GenStrings == {StrHi, Rep(1, 97), Rep(LongLen, 98), Rep(LongLen - 3, 99)}

GenNames == {"a", "b"}

GenInit ==
    /\ gen = newGenerator
    /\ genPc = "start"
    /\ genStmts = 0
    /\ CgIdle
    /\ LexIdle
    /\ ParseIdle
    /\ SemIdle
    /\ DrvIdle

\* generateMultiple starts on the tree.
GenStart ==
    /\ genPc = "start"
    /\ gen' = generateBegin(gen)
    /\ genPc' = "visit"
    /\ UNCHANGED <<genStmts, exceptGen>>

\* The statements of the block are visited in turn.  The tree is
\* semantically valid: a variable is declared once, before it is used, and
\* is assigned an expression of its type.
GenVarDecl ==
    /\ genPc = "visit"
    /\ genStmts < MaxGenStmts
    /\ \E name \in GenNames, type \in Types :
          /\ findSymbol(gen, name) = 0
          /\ gen' = generateVarDecl(gen, name, type)
    /\ genStmts' = genStmts + 1
    /\ UNCHANGED <<genPc, exceptGen>>

GenAssign ==
    /\ genPc = "visit"
    /\ genStmts < MaxGenStmts
    /\ \E name \in GenNames,
          expr \in {IntLit(7)} \cup {StrLit(s) : s \in GenStrings}
                     \cup {VarRef(n) : n \in GenNames} :
          /\ findSymbol(gen, name) # 0
          /\ expr.kind = "id" => findSymbol(gen, expr.name) # 0
          /\ gen.symbolTable[findSymbol(gen, name)].type =
                 IF expr.kind = "id"
                 THEN gen.symbolTable[findSymbol(gen, expr.name)].type
                 ELSE expr.kind
          /\ gen' = generateAssignment(gen, name, expr)
    /\ genStmts' = genStmts + 1
    /\ UNCHANGED <<genPc, exceptGen>>

GenPrint ==
    /\ genPc = "visit"
    /\ genStmts < MaxGenStmts
    /\ \E expr \in {IntLit(7)} \cup {StrLit(s) : s \in GenStrings}
                     \cup {VarRef(n) : n \in GenNames} :
          /\ expr.kind = "id" => findSymbol(gen, expr.name) # 0
          /\ gen' = generatePrintStatement(gen, expr)
    /\ genStmts' = genStmts + 1
    /\ UNCHANGED <<genPc, exceptGen>>

\* The block has no more statements: the image is completed and pushed.
GenFinish ==
    /\ genPc = "visit"
    /\ gen' = generateEnd(gen, genStmts = 0)
    /\ genPc' = "done"
    /\ UNCHANGED <<genStmts, exceptGen>>

GenNext == GenStart \/ GenVarDecl \/ GenAssign \/ GenPrint \/ GenFinish

GenSpec == GenInit /\ [][GenNext]_vars

\* C5: the image returned for a semantically valid tree has exactly 256
\* bytes.
C5_ImageIs256Bytes ==
    genPc = "done" => Len(gen.image) = ImageSize

\* The byte of the image at an address, -1 past its end.
byteAt(a) == IF a < Len(gen.image) THEN gen.image[a + 1] ELSE -1

\* C6: the image holds every string of the pool, the reserved ones
\* included, at its address, followed by 0x00, and every other byte of the
\* heap region is 0x00.
C6_StringPoolLayout ==
    genPc = "done" =>
        /\ \A k \in 1..Len(gen.stringPool) :
              LET e == gen.stringPool[k]
              IN  /\ \A i \in 1..Len(e.str) : byteAt(e.addr + i - 1) = e.str[i]
                  /\ byteAt(e.addr + Len(e.str)) = 0
        /\ \A a \in heapStart..(ImageSize - 1) :
              (\A k \in 1..Len(gen.stringPool) :
                  \/ a < gen.stringPool[k].addr
                  \/ a > gen.stringPool[k].addr + Len(gen.stringPool[k].str))
              => byteAt(a) = 0

\* ------------------------------------------------------------------------
\* generate() of src/src/codeGeneration.ts, run MaxCgRuns times on one
\* tree.  The first run puts the tree together as it visits it; the next
\* runs visit the same tree, on the same generator or on a new one.  The
\* tree is semantically valid: it is one block, a name is declared at most
\* once in a block, and an identifier that is used is declared in a block
\* that is open.  Every variable is an int.  The condition of an if or a
\* while compares two integer literals, and their branches and bodies are
\* blocks.
\* ------------------------------------------------------------------------

Node(op, name, value) == [op |-> op, name |-> name, value |-> value]

CgStrings == {<<97>>, <<98, 98>>}

replaying == cgRun.results # <<>>

\* The node may be visited next: it is the next node of the tree, or the
\* tree can still grow by it and by the ends of the blocks that are open.
admits(node) ==
    IF replaying
    THEN cgRun.next < Len(cgRun.ast) /\ cgRun.ast[cgRun.next + 1] = node
    ELSE \/ node.op \in {"close", "endif", "endwhile"}
         \/ Len(cgRun.ast) + Len(cgRun.open)
                + (IF node.op \in {"open", "if"}
                      \/ (node.op = "while" /\ ~cgInvalidWhile(node.value[1]))
                   THEN 1 ELSE 0) < MaxCgNodes

\* The name is declared in a block that is open.
cgDeclared(name) ==
    \E i \in 1..Len(cgRun.decls), k \in 1..Len(cgRun.open) :
        /\ cgRun.decls[i].name = name
        /\ cgRun.decls[i].block = cgRun.open[k].block

\* The history once the node has been visited as a child of the innermost
\* open block.
visited(node) ==
    [cgRun EXCEPT
        !.ast = IF replaying THEN @ ELSE Append(@, node),
        !.next = @ + 1,
        !.open = IF @ = <<>> THEN @
                 ELSE [@ EXCEPT ![Len(@)].children = @ + 1]]

\* The conditions of the if and while statements of the trees: [operator,
\* left, right] as <<0 for "==" and 1 for "!=", left, right>>, the operands
\* being integer literals.
CgConds == {<<0, 1, 1>>, <<1, 1, 2>>}

Cond(c) ==
    [operator |-> IF c[1] = 0 THEN "==" ELSE "!=", left |-> c[2],
     right |-> c[3]]

\* The two forms of a WhileStatement node, by the length of its children
\* array: 0 for the node convertWhileStatement builds (fields condition
\* and body, no children), 2 for a node with [condition, body] as
\* children.
WhileForms == {0, 2}

\* The innermost open block is the branch of an if or the body of a while
\* that is being generated.
isBranch ==
    /\ cgRun.flows # <<>>
    /\ Last(cgRun.flows).frame = Len(cgRun.open)

\* What is kept of an if or while statement: positions are lengths of
\* code, so position p is the index p + 1 of code.  cond is the condition,
\* loopStart where the code of the statement begins (it begins with the
\* code of the condition), jumpInst where the forward BNE is, thenEnd
\* where the then branch ends, elseJump where the BNE between the branches
\* is, end where the statement ends.
flowOf(kind, children, cond, loopStart, jumpInst) ==
    [kind |-> kind, frame |-> Len(cgRun.open) + 1, children |-> children,
     cond |-> cond, completed |-> FALSE, loopStart |-> loopStart,
     jumpInst |-> jumpInst, hasElse |-> FALSE, thenEnd |-> 0,
     elseJump |-> 0, end |-> 0]

CgInit ==
    /\ cg = newCodeGenerator
    /\ cgPc = "start"
    /\ cgRun = newCgRun
    /\ LexIdle
    /\ ParseIdle
    /\ SemIdle
    /\ GenIdle
    /\ DrvIdle

\* generate() is called: on this generator, or on a new one.
CgStart ==
    /\ cgPc = "start"
    /\ \E fresh \in BOOLEAN :
          LET g == IF fresh THEN newCodeGenerator ELSE cg
          IN  /\ cg' = cgGenerateBegin(g)
              /\ cgRun' = [cgRun EXCEPT !.next = 0, !.open = <<>>,
                                        !.decls = <<>>,
                                        !.flows = <<>>, !.jumps = <<>>,
                                        !.thrown = FALSE,
                                        !.base = g.staticStart]
    /\ cgPc' = "visit"
    /\ UNCHANGED exceptCg

CgOpenBlock ==
    /\ cgPc = "visit"
    /\ admits(Node("open", "", <<>>))
    /\ replaying \/ (cgRun.open = <<>> <=> cgRun.next = 0)
    /\ cg' = cgEnterBlock(cg)
    /\ cgRun' = [visited(Node("open", "", <<>>)) EXCEPT
                    !.open = Append(@, [block |-> cgRun.next + 1,
                                        children |-> 0])]
    /\ UNCHANGED <<cgPc, exceptCg>>

CgCloseBlock ==
    /\ cgPc = "visit"
    /\ cgRun.open # <<>>
    /\ ~isBranch
    /\ admits(Node("close", "", <<>>))
    /\ cg' = cgExitBlock(cg, Last(cgRun.open).children = 0)
    /\ cgRun' = [cgRun EXCEPT
                    !.ast = IF replaying THEN @
                            ELSE Append(@, Node("close", "", <<>>)),
                    !.next = @ + 1,
                    !.open = SubSeq(@, 1, Len(@) - 1)]
    /\ UNCHANGED <<cgPc, exceptCg>>

CgVarDecl ==
    /\ cgPc = "visit"
    /\ cgRun.open # <<>>
    /\ \E name \in Names :
          /\ admits(Node("decl", name, <<>>))
          /\ replaying \/ ~\E i \in 1..Len(cgRun.decls) :
                             /\ cgRun.decls[i].name = name
                             /\ cgRun.decls[i].block = Last(cgRun.open).block
          /\ cg' = cgGenerateVarDecl(cg, name, "int")
          /\ cgRun' = [visited(Node("decl", name, <<>>)) EXCEPT
                          !.decls = Append(@,
                              [tag |-> Last(cg'.symbolTable).placeholderTag,
                               address |-> Last(cg'.symbolTable).address,
                               name |-> name,
                               block |-> Last(cgRun.open).block])]
    /\ UNCHANGED <<cgPc, exceptCg>>

CgAssign ==
    /\ cgPc = "visit"
    /\ cgRun.open # <<>>
    /\ \E name \in Names :
          /\ admits(Node("assign", name, <<7>>))
          /\ replaying \/ cgDeclared(name)
          /\ cg' = cgGenerateAssignment(cg, name, 7)
          /\ cgRun' = visited(Node("assign", name, <<7>>))
    /\ UNCHANGED <<cgPc, exceptCg>>

CgPrint ==
    /\ cgPc = "visit"
    /\ cgRun.open # <<>>
    /\ \E expr \in {VarRef(n) : n \in Names} \cup {StrLit(s) : s \in CgStrings} :
          /\ admits(Node("print", expr.name, expr.value))
          /\ replaying \/ expr.kind = "id" => cgDeclared(expr.name)
          /\ cg' = cgGeneratePrintStatement(cg, expr)
          /\ cgRun' = visited(Node("print", expr.name, expr.value))
    /\ UNCHANGED <<cgPc, exceptCg>>

\* generateIfStatement up to its visit of the then branch, a Block, which
\* is entered.
CgIf ==
    /\ cgPc = "visit"
    /\ cgRun.open # <<>>
    /\ \E c \in CgConds :
          /\ admits(Node("if", "", c))
          /\ cg' = cgEnterBlock(cgIfHead(cg, Cond(c)))
          /\ cgRun' = [visited(Node("if", "", c)) EXCEPT
                          !.open = Append(@, [block |-> cgRun.next + 1,
                                              children |-> 0]),
                          !.flows = Append(@,
                              flowOf("if", 0, c, Len(cg.code),
                                     Len(cg'.code) - 2))]
    /\ UNCHANGED <<cgPc, exceptCg>>

\* The then branch has been visited and the node has an else branch:
\* the jump over it is emitted and the else branch, a Block, is entered.
CgElse ==
    /\ cgPc = "visit"
    /\ isBranch
    /\ Last(cgRun.flows).kind = "if"
    /\ ~Last(cgRun.flows).hasElse
    /\ admits(Node("else", "", <<>>))
    /\ LET g1 == cgExitBlock(cg, Last(cgRun.open).children = 0)
       IN  /\ cg' = cgEnterBlock(cgElseSkip(g1))
           /\ cgRun' = [cgRun EXCEPT
                  !.ast = IF replaying THEN @
                          ELSE Append(@, Node("else", "", <<>>)),
                  !.next = @ + 1,
                  !.open[Len(cgRun.open)] =
                      [block |-> cgRun.next + 1, children |-> 0],
                  !.flows[Len(cgRun.flows)] =
                      [@ EXCEPT !.hasElse = TRUE,
                                !.thenEnd = Len(g1.code),
                                !.elseJump = Len(g1.code) + 2]]
    /\ UNCHANGED <<cgPc, exceptCg>>

\* The last branch of an if has been visited: generateIfStatement returns.
CgEndIf ==
    /\ cgPc = "visit"
    /\ isBranch
    /\ Last(cgRun.flows).kind = "if"
    /\ admits(Node("endif", "", <<>>))
    /\ cg' = cgExitBlock(cg, Last(cgRun.open).children = 0)
    /\ cgRun' = [cgRun EXCEPT
           !.ast = IF replaying THEN @
                   ELSE Append(@, Node("endif", "", <<>>)),
           !.next = @ + 1,
           !.open = SubSeq(@, 1, Len(@) - 1),
           !.flows = SubSeq(@, 1, Len(@) - 1),
           !.jumps = Append(@,
               [Last(cgRun.flows) EXCEPT
                   !.completed = TRUE,
                   !.thenEnd = IF Last(cgRun.flows).hasElse THEN @
                               ELSE Len(cg'.code),
                   !.end = Len(cg'.code)])]
    /\ UNCHANGED <<cgPc, exceptCg>>

\* generateWhileStatement up to its visit of the body, a Block, which is
\* entered; for a node without two children it throws, and generate()
\* returns from its catch clause.
CgWhile ==
    /\ cgPc = "visit"
    /\ cgRun.open # <<>>
    /\ \E children \in WhileForms, c \in CgConds :
          LET node == Node("while", "", <<children>> \o c)
          IN  /\ admits(node)
              /\ IF cgInvalidWhile(children)
                 THEN /\ cg' = cgCatch(cg)
                      /\ cgRun' = [visited(node) EXCEPT
                             !.jumps = Append(@,
                                 flowOf("while", children, c,
                                        Len(cg.code), 0)),
                             !.thrown = TRUE,
                             !.results = Append(@,
                                 [image |-> cg'.result,
                                  staticTable |-> cg'.staticTable,
                                  stringPool |-> cg'.stringPool])]
                      /\ cgPc' = IF Len(cgRun.results) + 1 < MaxCgRuns
                                 THEN "start" ELSE "done"
                 ELSE /\ cg' = cgEnterBlock(cgWhileHead(cg, Cond(c)))
                      /\ cgRun' = [visited(node) EXCEPT
                             !.open = Append(@, [block |-> cgRun.next + 1,
                                                 children |-> 0]),
                             !.flows = Append(@,
                                 flowOf("while", children, c,
                                        Len(cg.code), Len(cg'.code) - 2))]
                      /\ cgPc' = cgPc
    /\ UNCHANGED exceptCg

\* The body of a while has been visited: the backward jump, and the
\* operand of the forward one.
CgEndWhile ==
    /\ cgPc = "visit"
    /\ isBranch
    /\ Last(cgRun.flows).kind = "while"
    /\ admits(Node("endwhile", "", <<>>))
    /\ cg' = cgWhileTail(cgExitBlock(cg, Last(cgRun.open).children = 0),
                         Last(cgRun.flows).loopStart,
                         Last(cgRun.flows).jumpInst)
    /\ cgRun' = [cgRun EXCEPT
           !.ast = IF replaying THEN @
                   ELSE Append(@, Node("endwhile", "", <<>>)),
           !.next = @ + 1,
           !.open = SubSeq(@, 1, Len(@) - 1),
           !.flows = SubSeq(@, 1, Len(@) - 1),
           !.jumps = Append(@,
               [Last(cgRun.flows) EXCEPT !.completed = TRUE,
                                         !.end = Len(cg'.code)])]
    /\ UNCHANGED <<cgPc, exceptCg>>

\* The tree has been visited: generate() completes the code and returns.
CgFinish ==
    /\ cgPc = "visit"
    /\ cgRun.open = <<>>
    /\ cgRun.next > 0
    /\ cg' = cgGenerateEnd(cg)
    /\ cgRun' = [cgRun EXCEPT
                    !.results = Append(@,
                        [image |-> cg'.result,
                         staticTable |-> cg'.staticTable,
                         stringPool |-> cg'.stringPool])]
    /\ cgPc' = IF Len(cgRun.results) + 1 < MaxCgRuns THEN "start" ELSE "done"
    /\ UNCHANGED exceptCg

CgNext ==
    \/ CgStart
    \/ CgOpenBlock
    \/ CgCloseBlock
    \/ CgVarDecl
    \/ CgAssign
    \/ CgPrint
    \/ CgIf
    \/ CgElse
    \/ CgEndIf
    \/ CgWhile
    \/ CgEndWhile
    \/ CgFinish

CgSpec == CgInit /\ [][CgNext]_vars

\* C18: generating code twice for the same tree, each time on a new
\* generator or twice on the same one, yields the same image, the same
\* staticTable and the same stringPool.
C18_GenerationRepeatable ==
    \A i, j \in 1..Len(cgRun.results) : cgRun.results[i] = cgRun.results[j]

\* C24: for every IfStatement that has been generated, the operand of the
\* BNE that skips the then branch is the number of bytes emitted for the
\* then branch, plus the four bytes of the jump over the else branch when
\* there is one, and the operand of the BNE that skips the else branch is
\* the number of bytes emitted for the else branch.
C24_IfJumpsMeasured ==
    \A k \in 1..Len(cgRun.jumps) :
        LET j == cgRun.jumps[k]
        IN  (j.kind = "if" /\ j.completed) =>
               /\ cg.code[j.jumpInst + 2] =
                      (j.thenEnd - (j.jumpInst + 2))
                          + (IF j.hasElse THEN 4 ELSE 0)
               /\ j.hasElse =>
                      cg.code[j.elseJump + 2] = j.end - (j.elseJump + 2)

\* The code of a while statement j is laid out as the condition code, a
\* forward BNE whose operand is the length of the body plus 2, the body,
\* and LDA #1 with a backward BNE whose operand is the two's complement of
\* the distance from the end of the statement back to the loop start.
whileLayout(j) ==
    /\ cg.code[j.jumpInst + 1] = 208
    /\ cg.code[j.jumpInst + 2] = ((j.end - 4) - (j.jumpInst + 2)) + 2
    /\ SubSeq(cg.code, j.end - 3, j.end - 1) = <<169, 1, 208>>
    /\ cg.code[j.end] = (256 - (j.end - j.loopStart)) % 256

\* C25: for a WhileStatement node in the form convertWhileStatement gives
\* it (fields condition and body, no children array), generate() does not
\* fall back to the image [BRK] and emits the condition code, the forward
\* BNE patched to the body length + 2, the body, and the backward BNE to
\* the loop start.
C25_LoweredWhileGenerated ==
    \A k \in 1..Len(cgRun.jumps) :
        LET j == cgRun.jumps[k]
        IN  (j.kind = "while" /\ j.children = 0) =>
               /\ ~cgRun.thrown
               /\ j.completed
               /\ whileLayout(j)

\* C26: when generate() completes, the three regions of the image are
\* disjoint: the code with its final BRK ends below staticStart, every
\* address of the static table lies in [staticStart, heapStart), and every
\* string constant with its NUL terminator lies in [heapStart, 256).
C26_RegionsDisjoint ==
    [][(cgPc = "visit" /\ cgPc' # "visit" /\ ~cgRun'.thrown) =>
        /\ Len(cg.code) + 1 <= cgRun.base
        /\ \A i \in 1..Len(cg'.staticTable) :
              /\ cg'.staticTable[i].address >= cgRun.base
              /\ cg'.staticTable[i].address < cgHeapStart
        /\ \A k \in 1..Len(cg'.stringPool) :
              /\ cg'.stringPool[k].addr >= cgHeapStart
              /\ cg'.stringPool[k].addr + Len(cg'.stringPool[k].str) + 1
                    <= 256
        /\ cg'.currentHeapAddress <= 256
    ]_vars

\* The address the static table holds for a name.
staticAddress(g, name) ==
    g.staticTable[CHOOSE i \in 1..Len(g.staticTable) :
                     g.staticTable[i].name = name].address

\* C27: after a run of generate() has completed, the two bytes at every
\* placeholder recorded for a variable hold, low byte first, the address
\* the static table of that run has for the variable, and the names of the
\* static table are the names the VarDeclarations of the tree declare.
C27_PlaceholdersPatched ==
    (cgPc \in {"start", "done"} /\ cgRun.results # <<>> /\ ~cgRun.thrown) =>
        /\ \A k \in 1..Len(cg.placeholders) :
              \E i \in 1..Len(cgRun.decls) :
                  LET address == staticAddress(cg, cgRun.decls[i].name)
                      position == cg.placeholders[k].position
                  IN  /\ cgRun.decls[i].tag = cg.placeholders[k].tag
                      /\ cg.code[position + 1] = address % 256
                      /\ cg.code[position + 2] = (address \div 256) % 256
        /\ {cg.staticTable[i].name : i \in 1..Len(cg.staticTable)}
              = {cgRun.decls[i].name : i \in 1..Len(cgRun.decls)}

\* The two constants the code of a comparison can leave in the
\* accumulator: the operand of the LDA before the BNE and the operand of
\* the LDA the BNE jumps over.  start is where the code of the comparison
\* begins.
comparisonConstants(code, start) ==
    [default |-> code[start + 9], notTaken |-> code[start + 13]]

\* What the code of the comparison leaves in the accumulator, by whether
\* its BNE is taken.
comparisonResult(constants, taken) ==
    IF taken THEN constants.default ELSE constants.notTaken

\* C30: the code emitted for a != comparison can yield true: of the
\* constant loaded before the BNE and the one loaded when the branch is
\* not taken at least one is not zero, and whichever way the branch goes
\* the result differs from the result of == on the same operands.
C30_NotEqualCanBeTrue ==
    \A k \in 1..Len(cgRun.jumps) :
        LET j == cgRun.jumps[k]
            ne == comparisonConstants(cg.code, j.loopStart)
            eq == comparisonConstants(
                      cgGenerateComparisonCode(
                          newCodeGenerator,
                          [Cond(j.cond) EXCEPT !.operator = "=="]).code,
                      0)
        IN  (j.completed /\ Cond(j.cond).operator = "!=") =>
               /\ ne.default # 0 \/ ne.notTaken # 0
               /\ \A taken \in BOOLEAN :
                     comparisonResult(ne, taken) # comparisonResult(eq, taken)

\* C19: every VarDeclaration of a run receives a placeholder tag and the
\* address staticStart plus its index among the declarations, and no two
\* declarations of the run have the same tag or the same address, two
\* declarations of one name in different blocks included.
C19_DeclarationsDistinct ==
    /\ \A i \in 1..Len(cgRun.decls) :
          cgRun.decls[i].address = cgRun.base + i - 1
    /\ \A i, j \in 1..Len(cgRun.decls) :
          i # j => /\ cgRun.decls[i].tag # cgRun.decls[j].tag
                   /\ cgRun.decls[i].address # cgRun.decls[j].address


\* The pieces the source texts of DriverSpec are put together from.
DrvChunks ==
    { <<"{", "}">>, <<"{">>, <<"}">>, <<"!">>, <<"/">>, <<"$">>, <<" ">> }

DrvInit ==
    /\ drv \in {[source |-> Flatten(cs), programs |-> <<>>, runs |-> <<>>] :
                   cs \in SeqsUpTo(DrvChunks, MaxDrvChunks)}
    /\ drvPc = "split"
    /\ LexIdle
    /\ ParseIdle
    /\ SemIdle
    /\ GenIdle
    /\ CgIdle

\* The iteration of forEach for sub-program i begins (lines 267-276): the
\* lexer is constructed on its text.
startProgram(programs, runs, i) ==
    /\ drv' = [drv EXCEPT !.programs = programs,
                          !.runs = Append(runs, newRun)]
    /\ input' = programs[i]
    /\ lexer' = newLexer
    /\ lexPc' = "scan"
    /\ drvPc' = "lexer"

\* The handler splits the source (lines 246-253) and, unless no
\* sub-program is found, enters forEach.
DrvSplit ==
    /\ drvPc = "split"
    /\ LET programs == programSources(drv.source)
       IN  IF programs = <<>>
           THEN /\ drvPc' = "done"
                /\ UNCHANGED <<drv, lexVars>>
           ELSE startProgram(programs, <<>>, 1)
    /\ UNCHANGED <<parseVars, semVars, genVars>>

\* tokenize() has returned: the parser is constructed on its tokens
\* (lines 289-290).
DrvParser ==
    /\ drvPc = "lexer"
    /\ lexPc = "done"
    /\ ptokens' = lexer.tokens
    /\ parser' = newParser
    /\ parsePc' = "start"
    /\ drv' = [drv EXCEPT !.runs[Len(drv.runs)].stages = Append(@, "parser")]
    /\ drvPc' = "parser"
    /\ UNCHANGED <<lexVars, semVars, genVars>>

\* parse() has returned: the semantic stage (lines 313-315) runs if its
\* condition holds.  The analyzer returns its issues, or an exception
\* leaves the iteration through the catch clause of lines 511-526.
DrvSemantic ==
    /\ drvPc = "parser"
    /\ parsePc = "done"
    /\ LET run == [Last(drv.runs) EXCEPT
                      !.ast = ~parser.astNull,
                      !.errorLogs = NumErrors(parser.logs)]
       IN  IF semanticGate(run)
           THEN \E a \in Analyses :
                   /\ drv' = [drv EXCEPT !.runs[Len(drv.runs)] =
                                 [run EXCEPT !.stages = Append(@, "semantic"),
                                             !.analysis = a.analysis,
                                             !.issues = a.issues]]
                   /\ drvPc' = IF a.analysis = "threw" THEN "end"
                               ELSE "analyzed"
           ELSE /\ drv' = [drv EXCEPT !.runs[Len(drv.runs)] = run]
                /\ drvPc' = "end"
    /\ UNCHANGED <<lexVars, parseVars, semVars, genVars>>

\* analyze() has returned: the code generation stage (lines 391-472) runs
\* if its condition holds.  An exception of the generator is caught by the
\* catch clause of lines 459-471.
DrvCodeGen ==
    /\ drvPc = "analyzed"
    /\ drv' = IF codeGenGate(Last(drv.runs))
              THEN [drv EXCEPT !.runs[Len(drv.runs)].stages =
                                   Append(@, "codegen")]
              ELSE drv
    /\ drvPc' = "end"
    /\ UNCHANGED <<lexVars, parseVars, semVars, genVars>>

\* The iteration is over: forEach goes on to the next sub-program, or the
\* handler is done.
DrvNextProgram ==
    /\ drvPc = "end"
    /\ LET runs == [drv.runs EXCEPT ![Len(drv.runs)].finished = TRUE]
       IN  IF Len(runs) < Len(drv.programs)
           THEN startProgram(drv.programs, runs, Len(runs) + 1)
           ELSE /\ drv' = [drv EXCEPT !.runs = runs]
                /\ drvPc' = "done"
                /\ UNCHANGED lexVars
    /\ UNCHANGED <<parseVars, semVars, genVars>>

DrvNext ==
    \/ DrvSplit
    \/ LexStep
    \/ LexFinish
    \/ DrvParser
    \/ ParseStart
    \/ BlockIter
    \/ BlockClose
    \/ DrvSemantic
    \/ DrvCodeGen
    \/ DrvNextProgram

DriverSpec == DrvInit /\ [][DrvNext]_vars

\* The handler runs to completion once started: the browser does not
\* interrupt a running script.
DriverFairSpec == DriverSpec /\ WF_vars(DrvNext)

StageOrder == <<"lexer", "parser", "semantic", "codegen">>

started(run, stage) == \E k \in 1..Len(run.stages) : run.stages[k] = stage

\* C3: the stages of a sub-program start in the order lexer, parser,
\* semantic analysis, code generation; semantic analysis starts only if
\* the parser returned a tree and no ERROR entry, code generation only if
\* moreover no issue has type error, and warnings alone do not prevent it.
C3_StageGating ==
    \A i \in 1..Len(drv.runs) :
        LET run == drv.runs[i]
        IN  /\ run.stages = SubSeq(StageOrder, 1, Len(run.stages))
            /\ started(run, "semantic") => (run.ast /\ run.errorLogs = 0)
            /\ started(run, "codegen") =>
                   \A k \in 1..Len(run.issues) : run.issues[k] # "error"
            /\ (/\ run.finished
                /\ run.analysis = "returned"
                /\ run.issues = <<"warning">>)
               => started(run, "codegen")

\* Code generation has started for a sub-program whose analysis reported
\* a warning and no error.
C3_Witness ==
    \E i \in 1..Len(drv.runs) :
        /\ started(drv.runs[i], "codegen")
        /\ drv.runs[i].issues = <<"warning">>

\* C4: the lexer is eventually started on every sub-program of the source.
C4_EveryProgramStarted ==
    <>(drvPc # "split" /\ Len(drv.runs) = Len(programSources(drv.source)))

\* Sub-program i of the source is terminated by "$": another sub-program
\* follows it, or the source ends with "$" once trimmed.
terminatedByEop(i) ==
    \/ i < Len(drv.programs)
    \/ trim(drv.source) # <<>> /\ Last(trim(drv.source)) = "$"

\* The INFO entries "Lex completed with 0 errors" of a log.
completedWithNoErrors(logs) ==
    {i \in 1..Len(logs) :
        /\ logs[i].level = "INFO"
        /\ logs[i].message = "Lex completed with 0 errors"}

\* C16: when the driver compiles a sub-program that has no lexical error
\* and is terminated by "$", the lexer log of the sub-program holds
\* exactly one INFO entry "Lex completed with 0 errors" and no warning
\* "Missing end of program symbol ($)": the EOP token handed to the parser
\* is the one scanned from the "$".
C16_EopScannedFromSource ==
    (/\ drvPc \in {"lexer", "parser"}
     /\ lexPc = "done"
     /\ NumErrors(lexer.logs) = 0
     /\ terminatedByEop(Len(drv.runs)))
        => /\ Cardinality(completedWithNoErrors(lexer.logs)) = 1
           /\ missingEop(lexer.logs) = {}

=========================================================================
